---- MODULE Spec2Model ----
(***************************************************************************)
(* A model of squell: the queryable algebra (queryable.ts), the Where      *)
(* predicate (where.ts) and the copy-on-write query builder with its       *)
(* include merging and compilation (query.ts), and the storage operations  *)
(* of a query with the association engine (query.ts).                      *)
(*                                                                         *)
(* JavaScript values are modelled as tagged records so that values of      *)
(* different shapes can be compared:                                       *)
(*   Lit(v)   a constant (string) value                                    *)
(*   Col(n)   sequelize.col(n)                                             *)
(*   Fn(n,a)  sequelize.fn(n, ...a)                                        *)
(*   Arr(s)   an array                                                     *)
(*   Obj(m)   a plain object, m a function from keys (strings) to values   *)
(* The representation of a Where (its repr field) is the bare key map m.   *)
(***************************************************************************)
EXTENDS Integers, Sequences, FiniteSets, TLC

VARIABLES
  w,        \* where algebra: the Where the last call returned (its repr)
  lastOp,   \* where algebra: the last call made (operation and operands)
  parts,    \* where algebra: the compiled leaves and-ed together into w
  leaves,   \* where algebra: the number of leaf predicates inside w
  thrown,   \* where algebra: the last call threw a SyntaxError
  queries,  \* query builder: every Query object constructed so far
  lastCall, \* query builder: the last builder call (operation, operands, outcome)
  rows,     \* storage: the table of each root model, row i has primary key i
  lastStore,\* storage: the last storage operation, the storage-engine calls
            \* it issued in order, and what it resolved to
  coercion, \* validation errors: the backend error handed to
            \* coerceValidationError and the error it was coerced to
  flight    \* tasks: the update in flight, the point it has reached and
            \* the order in which its rows issued their calls

whereVars == <<w, lastOp, parts, leaves, thrown>>
queryVars == <<queries, lastCall>>
storeVars == <<rows, lastStore>>
errorVars == <<coercion>>
taskVars == <<flight>>
vars == <<w, lastOp, parts, leaves, thrown, queries, lastCall, rows, lastStore,
          coercion, flight>>

---------------------------------------------------------------------------
(* Bounds *)

\* the largest number of leaf predicates combined into one Where
MaxLeaves == 3
\* the largest number of Query objects alive (the fresh query included)
MaxQueries == 3
\* the largest argument passed to skip and take
MaxNum == 2
\* the largest number of rows in the table of a model
MaxRows == 3
\* the largest number of violations in one backend validation error
MaxErrs == 2

---------------------------------------------------------------------------
(* JavaScript values *)

Lit(v) == [t |-> "lit", v |-> v]
Col(n) == [t |-> "col", n |-> n]
Fn(n, a) == [t |-> "fn", n |-> n, a |-> a]
Arr(s) == [t |-> "arr", a |-> s]
Obj(m) == [t |-> "obj", m |-> m]

\* the empty plain object {}
EmptyMap == [k \in {} |-> Lit("")]

\* _.extend({}, a, b) and Object.assign({}, a, b): the keys of both, b's
\* value on a key both have
extend(a, b) ==
  [k \in (DOMAIN a) \cup (DOMAIN b) |-> IF k \in DOMAIN b THEN b[k] ELSE a[k]]

\* _.fromPairs([[k, v]])
fromPairs(k, v) == [x \in {k} |-> v]

---------------------------------------------------------------------------
(* Queryables (queryable.ts) *)

AttributeQueryable(name) == [kind |-> "attribute", name |-> name, args |-> <<>>]
AssociationQueryable(name) == [kind |-> "association", name |-> name, args |-> <<>>]
\* attribute(name): an attribute queryable from an absolute attribute path
attribute(name) == AttributeQueryable(name)
ColumnQueryable(name) == [kind |-> "column", name |-> name, args |-> <<>>]
ConstantQueryable(value) == [kind |-> "constant", name |-> value, args |-> <<>>]
FunctionQueryable(name, args) == [kind |-> "function", name |-> name, args |-> args]
AliasQueryable(name, aliased) == [kind |-> "alias", name |-> name, args |-> <<aliased>>]

\* a plausible slip: an alias compiles to its name on the left
compileLeftThrows_aliasCompiles(q) == q.kind \in {"column", "function"}

\* compileLeft() throws a SyntaxError on column, function and alias queryables
compileLeftThrows(q) == q.kind \in {"column", "function", "alias"}

\* compileLeft(): the attribute (association) name, or the constant's value
compileLeft(q) == q.name

RECURSIVE compileRight(_)
compileRight(q) ==
  CASE q.kind \in {"attribute", "association", "column"} -> Col(q.name)
    [] q.kind = "constant" -> Lit(q.name)
    [] q.kind = "function" ->
         Fn(q.name, [i \in 1..Len(q.args) |-> compileRight(q.args[i])])
    [] q.kind = "alias" -> Arr(<<compileRight(q.args[1]), Lit(q.name)>>)

\* An operand of a comparison: a constant value or another queryable
Const(v) == [isQueryable |-> FALSE, v |-> v]
Qble(q) == [isQueryable |-> TRUE, q |-> q]

\* The operator each comparison method passes to build()
OperatorOf ==
  [eq |-> "$eq", ne |-> "$ne", gt |-> "$gt", gte |-> "$gte", lt |-> "$lt",
   lte |-> "$lte", like |-> "$like", notLike |-> "$notLike",
   iLike |-> "$iLike", notILike |-> "$notILike", not |-> "$not",
   in |-> "$in", notIn |-> "$notIn", between |-> "$between",
   notBetween |-> "$notBetween", overlap |-> "$overlap",
   contains |-> "$contains", contained |-> "$contained", any |-> "$any",
   adjacent |-> "$adjacent", strictLeft |-> "$strictLeft",
   strictRight |-> "$strictRight", noExtendRight |-> "$noExtendRight",
   noExtendLeft |-> "$noExtendLeft"]

Methods == DOMAIN OperatorOf

\* a plausible slip: the identity operator is wrapped like every other one
build_wrapEq(this, other, operator) ==
  LET value == IF other.isQueryable THEN compileRight(other.q) ELSE Lit(other.v)
  IN  fromPairs(compileLeft(this), Obj(fromPairs(operator, value)))

\* Queryable.build: the Where comparing this to other under operator
\* (defined when this.compileLeft() does not throw)
build(this, other, operator) ==
  LET value == IF other.isQueryable THEN compileRight(other.q) ELSE Lit(other.v)
      operation == IF operator = "$eq" THEN value
                   ELSE Obj(fromPairs(operator, value))
  IN  fromPairs(compileLeft(this), operation)

---------------------------------------------------------------------------
(* Where (where.ts) *)

\* Where.and
and(this, other) == extend(this, fromPairs("$and", Obj(other)))

\* a plausible slip: an existing disjunction is extended instead of nested
or_flatten(this, other) ==
  IF "$or" \in DOMAIN this
    THEN fromPairs("$or", Arr(Append(this["$or"].a, Obj(other))))
    ELSE fromPairs("$or", Arr(<<Obj(this), Obj(other)>>))

\* Where.or
or(this, other) == fromPairs("$or", Arr(<<Obj(this), Obj(other)>>))

---------------------------------------------------------------------------
(* The where algebra as a state machine: the caller holds one Where, w,   *)
(* replaces it by a fresh comparison, or combines it with another Where.  *)

NoOp == [op |-> "none", this |-> ConstantQueryable(""), method |-> "eq",
         other |-> Const(""), x |-> EmptyMap, y |-> EmptyMap]

InitWhere ==
  /\ w = EmptyMap
  /\ lastOp = NoOp
  /\ parts = <<>>
  /\ leaves = 0
  /\ thrown = FALSE

\* this.method(other): one of the comparison methods of Queryable
Compare(this, method, other) ==
  /\ lastOp' = [NoOp EXCEPT !.op = "build", !.this = this,
                            !.method = method, !.other = other]
  /\ IF compileLeftThrows(this)
       THEN /\ thrown' = TRUE
            /\ w' = EmptyMap
            /\ parts' = <<>>
            /\ leaves' = 0
       ELSE /\ thrown' = FALSE
            /\ w' = build(this, other, OperatorOf[method])
            /\ parts' = <<w'>>
            /\ leaves' = 1
  /\ UNCHANGED <<queryVars, storeVars, errorVars, taskVars>>

\* The queryables and operands of the comparison tests (queryable.spec.ts)
CountAge == FunctionQueryable("COUNT", <<AttributeQueryable("age")>>)

Lefts ==
  {AttributeQueryable("name"), AttributeQueryable("age"),
   AssociationQueryable("mentor"), ConstantQueryable("v1"),
   ColumnQueryable("c"), CountAge, AliasQueryable("total", CountAge)}

Operands ==
  {Const("v1"), Const("v2"), Qble(AttributeQueryable("age")),
   Qble(ConstantQueryable("v2")), Qble(ColumnQueryable("c")), Qble(CountAge),
   Qble(AliasQueryable("total", CountAge))}

CompareAny == \E this \in Lefts, method \in Methods, other \in Operands :
                Compare(this, method, other)

\* The leaf predicates the and/or machine combines
LeafAttrs == {"name", "age"}
LeafMethods == {"eq", "gt"}
LeafValues == {"v1", "v2"}

CompareLeaf == \E a \in LeafAttrs, method \in LeafMethods, v \in LeafValues :
                 Compare(AttributeQueryable(a), method, Const(v))

LeafWheres ==
  {build(AttributeQueryable(a), Const(v), OperatorOf[m]) :
     a \in LeafAttrs, m \in LeafMethods, v \in LeafValues}

\* The Wheres passed as the argument of and / or: a leaf, or two leaves
\* combined; parts are the leaves and-ed together in it, n their number
Arguments ==
  {[repr |-> l, parts |-> <<l>>, n |-> 1] : l \in LeafWheres}
  \cup {[repr |-> and(l1, l2), parts |-> <<l1, l2>>, n |-> 2] :
          l1 \in LeafWheres, l2 \in LeafWheres}
  \cup {[repr |-> or(l1, l2), parts |-> <<or(l1, l2)>>, n |-> 2] :
          l1 \in LeafWheres, l2 \in LeafWheres}

\* w = w.and(other)
And == \E other \in Arguments :
  /\ lastOp.op # "none" /\ leaves > 0
  /\ leaves + other.n <= MaxLeaves
  /\ w' = and(w, other.repr)
  /\ parts' = parts \o other.parts
  /\ leaves' = leaves + other.n
  /\ lastOp' = [NoOp EXCEPT !.op = "and", !.x = w, !.y = other.repr]
  /\ thrown' = FALSE
  /\ UNCHANGED <<queryVars, storeVars, errorVars, taskVars>>

\* w = w.or(other)
Or == \E other \in Arguments :
  /\ lastOp.op # "none" /\ leaves > 0
  /\ leaves + other.n <= MaxLeaves
  /\ w' = or(w, other.repr)
  /\ parts' = <<w'>>
  /\ leaves' = leaves + other.n
  /\ lastOp' = [NoOp EXCEPT !.op = "or", !.x = w, !.y = other.repr]
  /\ thrown' = FALSE
  /\ UNCHANGED <<queryVars, storeVars, errorVars, taskVars>>

---------------------------------------------------------------------------
(* Query options (query.ts) *)

\* An optional list-valued option: absent (undefined), or set to a list
None == [def |-> FALSE, v |-> <<>>]
Some(s) == [def |-> TRUE, v |-> s]

\* o || []
OrEmpty(o) == o.v

\* { ...a, ...b } on one optional key
SpreadOpt(a, b) == IF b.def THEN b ELSE a

Null == [t |-> "null"]
\* the outcome of a call that threw a TypeError
Threw == [t |-> "error"]

\* The Query constructor: wheres [], skipped 0, taken 0, nothing else set
DefaultOptions ==
  [wheres |-> <<>>, attrs |-> None, includes |-> None, orderings |-> None,
   groupBys |-> None, skipped |-> 0, taken |-> 0]

Query(options) == [t |-> "query", options |-> options]

\* db.query(Actor)
Fresh == Query(DefaultOptions)

\* The associations of the test model Actor, in declaration order
AssocKeys == <<"mentor", "mentee">>

\* getAssociationOptions(model, key).as: Actor declares no alias overrides
AssociationAs(key) == key

\* includes.findIndex(_ => _.as === assocKey), 0 when there is none
findIndex(includes, assocKey) ==
  IF \E i \in 1..Len(includes) : includes[i].as = assocKey
    THEN CHOOSE i \in 1..Len(includes) :
           /\ includes[i].as = assocKey
           /\ \A j \in 1..(i - 1) : includes[j].as # assocKey
    ELSE 0

\* the keys of _.groupBy(includes, _ => _.as), in order of first occurrence
RECURSIVE groupKeys(_)
groupKeys(includes) ==
  IF includes = <<>> THEN <<>>
  ELSE LET front == groupKeys(SubSeq(includes, 1, Len(includes) - 1))
           key == includes[Len(includes)].as
       IN  IF \E i \in 1..Len(front) : front[i] = key
             THEN front ELSE Append(front, key)

\* { ..._[0], ..._[1] } on two include options (required is the only key an
\* include option may lack)
SpreadInclude(a, b) ==
  [model |-> b.model, as |-> b.as, associateOnly |-> b.associateOnly,
   required |-> IF b.required # "undefined" THEN b.required ELSE a.required,
   query |-> b.query]

\* Query.merge: the merged query, or Threw when the call throws
\*   { ...this.options, ...other.options, wheres, attrs, orderings, includes }
\*   then, per alias group _, { ..._[0], ..._[1], query: _[0].query.merge(_[1].query) }
RECURSIVE merge(_, _)
merge(this, other) ==
  IF other = Null THEN Threw
  ELSE
    LET a == this.options
        b == other.options
        all == OrEmpty(a.includes) \o OrEmpty(b.includes)
        keys == groupKeys(all)
        group(k) == SelectSeq(all, LAMBDA inc : inc.as = k)
        mergeGroup(g) ==
          IF Len(g) < 2 THEN Threw
          ELSE IF g[1].query = Null THEN Threw
          ELSE LET m == merge(g[1].query, g[2].query)
               IN  IF m = Threw THEN Threw
                   ELSE [SpreadInclude(g[1], g[2]) EXCEPT !.query = m]
        merged == [i \in 1..Len(keys) |-> mergeGroup(group(keys[i]))]
    IN  IF \E i \in 1..Len(keys) : merged[i] = Threw THEN Threw
        ELSE Query([wheres |-> a.wheres \o b.wheres,
                    attrs |-> Some(OrEmpty(a.attrs) \o OrEmpty(b.attrs)),
                    orderings |-> Some(OrEmpty(a.orderings) \o OrEmpty(b.orderings)),
                    includes |-> Some(merged),
                    groupBys |-> SpreadOpt(a.groupBys, b.groupBys),
                    skipped |-> b.skipped,
                    taken |-> b.taken])

\* Query.where, with the Where the map function returned
where(this, wh) ==
  Query([this.options EXCEPT !.wheres = Append(this.options.wheres, wh)])

\* Query.attributes, with the list the map function returned
attributes(this, list) ==
  Query([this.options EXCEPT !.attrs = Some(OrEmpty(this.options.attrs) \o list)])

\* Query.order
order(this, list) ==
  Query([this.options EXCEPT
           !.orderings = Some(OrEmpty(this.options.orderings) \o list)])

\* Query.groupBy
groupBy(this, list) ==
  Query([this.options EXCEPT
           !.groupBys = Some(OrEmpty(this.options.groupBys) \o list)])

\* a plausible slip: skip replaces the offset instead of adding to it
skip_replace(this, num) == Query([this.options EXCEPT !.skipped = num])

\* Query.skip
skip(this, num) ==
  Query([this.options EXCEPT !.skipped = this.options.skipped + num])

\* Query.take
take(this, num) ==
  Query([this.options EXCEPT !.taken = this.options.taken + num])

\* { ...include, ...extraOptions }: extraOptions maps some of the keys as,
\* required, associateOnly to their override
WithExtra(inc, extraOptions) ==
  [model |-> inc.model,
   as |-> IF "as" \in DOMAIN extraOptions THEN extraOptions["as"] ELSE inc.as,
   associateOnly |-> IF "associateOnly" \in DOMAIN extraOptions
                       THEN extraOptions["associateOnly"] ELSE inc.associateOnly,
   required |-> IF "required" \in DOMAIN extraOptions
                  THEN extraOptions["required"] ELSE inc.required,
   query |-> inc.query]

\* Query.include: assocAttr and extraOptions are what the map function
\* returned, sub is what the query callback returned on a fresh query
\* (Null when no callback was passed); Threw when the call throws
include(this, assocAttr, extraOptions, sub) ==
  LET includes == OrEmpty(this.options.includes)
      assocKey == AssociationAs(compileLeft(assocAttr))
      existingIncludeIndex == findIndex(includes, assocKey)
      hasExisting == existingIncludeIndex > 0
      existingInclude == includes[existingIncludeIndex]
      defaults == [model |-> "Actor", as |-> assocKey, associateOnly |-> "true",
                   required |-> "undefined", query |-> Null]
      includeOptions ==
        WithExtra(IF hasExisting THEN existingInclude ELSE defaults, extraOptions)
      query == IF hasExisting /\ existingInclude.query # Null
                 THEN IF sub # Null THEN merge(existingInclude.query, sub)
                      ELSE existingInclude.query
                 ELSE sub
      rest == IF hasExisting
                THEN SubSeq(includes, 1, existingIncludeIndex - 1)
                       \o SubSeq(includes, existingIncludeIndex + 1, Len(includes))
                ELSE includes
  IN  IF query = Threw THEN Threw
      ELSE Query([this.options EXCEPT
                    !.includes = Some(Append(rest, [includeOptions EXCEPT !.query = query]))])

\* Query.includeAll: include every association of the model in turn
RECURSIVE includeAllFrom(_, _, _)
includeAllFrom(query, i, options) ==
  IF i > Len(AssocKeys) \/ query = Threw THEN query
  ELSE includeAllFrom(include(query, AssociationQueryable(AssocKeys[i]), options, Null),
                      i + 1, options)

includeAll(this, options) == includeAllFrom(this, 1, options)

---------------------------------------------------------------------------
(* Compilation to Sequelize find options (query.ts) *)

NoNum == [def |-> FALSE, v |-> 0]
NoWhere == [def |-> FALSE, v |-> EmptyMap]

\* Query.compileWheres: Object.assign({}, ...wheres.map(w => w.compile()))
RECURSIVE assignAll(_)
assignAll(ms) ==
  IF ms = <<>> THEN EmptyMap
  ELSE extend(assignAll(SubSeq(ms, 1, Len(ms) - 1)), ms[Len(ms)])

compileWheres(this) == assignAll(this.options.wheres)

\* One entry of attrs: an attribute queryable, or an array of queryables
Single(q) == [isArray |-> FALSE, items |-> <<q>>]
Pair(f, q) == [isArray |-> TRUE, items |-> <<f, q>>]

\* Query.compileAttributes
compileAttributes(this) ==
  LET one(x) == IF x.kind \in {"attribute", "association"}
                  THEN Lit(compileLeft(x)) ELSE compileRight(x)
      entry(e) == IF e.isArray
                    THEN Arr([i \in 1..Len(e.items) |-> one(e.items[i])])
                    ELSE Lit(compileLeft(e.items[1]))
  IN  [i \in 1..Len(this.options.attrs.v) |-> entry(this.options.attrs.v[i])]

\* Query.compileGroupBys
compileGroupBys(this) ==
  [i \in 1..Len(this.options.groupBys.v) |-> compileRight(this.options.groupBys.v[i])]

\* Query.compileOrderings, on [queryable, direction] orderings
compileOrderings(this) ==
  [i \in 1..Len(this.options.orderings.v) |->
     Arr(<<Lit(compileLeft(this.options.orderings.v[i].q)),
           Lit(this.options.orderings.v[i].dir)>>)]

\* Query.compileFindOptions and Query.compileIncludes
RECURSIVE compileFindOptions(_)
compileFindOptions(this) ==
  LET compileInclude(inc) ==
        LET findOpts == compileFindOptions(inc.query)
        IN  IF inc.query = Null
              THEN [model |-> inc.model, as |-> inc.as, required |-> inc.required,
                    where |-> NoWhere, attributes |-> None, include |-> None]
              ELSE [model |-> inc.model, as |-> inc.as, required |-> inc.required,
                    where |-> [def |-> TRUE, v |-> findOpts.where],
                    attributes |-> findOpts.attributes,
                    include |-> findOpts.include]
      compileIncludes ==
        [i \in 1..Len(this.options.includes.v) |->
           compileInclude(this.options.includes.v[i])]
  IN  [where |-> compileWheres(this),
       attributes |-> IF this.options.attrs.def
                        THEN Some(compileAttributes(this)) ELSE None,
       include |-> IF this.options.includes.def THEN Some(compileIncludes) ELSE None,
       order |-> IF this.options.orderings.def
                   THEN Some(compileOrderings(this)) ELSE None,
       group |-> IF this.options.groupBys.def
                   THEN Some(compileGroupBys(this)) ELSE None,
       offset |-> IF this.options.skipped > 0
                    THEN [def |-> TRUE, v |-> this.options.skipped] ELSE NoNum,
       limit |-> IF this.options.taken > 0
                   THEN [def |-> TRUE, v |-> this.options.taken] ELSE NoNum]

\* this.compileIncludes(null, includes)
compileIncludes(includes) ==
  compileFindOptions(Query([DefaultOptions EXCEPT !.includes = Some(includes)])).include.v

---------------------------------------------------------------------------
(* The query builder as a state machine: queries holds every Query object  *)
(* constructed so far; a builder call takes its receiver (and argument)   *)
(* among them and, unless it throws, constructs one more.                 *)
(* Beside the object, an entry records the sums of the arguments of the   *)
(* skip and take calls on the chain that built it, and whether a merge    *)
(* is on that chain.                                                      *)

Entry(q, skips, takes, merged) ==
  [q |-> q, skips |-> skips, takes |-> takes, merged |-> merged]

NoCall == [op |-> "none", this |-> 0, other |-> 0, outcome |-> "none",
           assocKey |-> "", extra |-> EmptyMap, sub |-> Null, num |-> 0]

InitQuery ==
  /\ queries = <<Entry(Fresh, 0, 0, FALSE)>>
  /\ lastCall = NoCall

\* The tables the query tests start from (query.spec.ts, beforeEach)
InitialRows == [actor |-> <<[name |-> "v1"], [name |-> "v2"]>>, list |-> <<>>]

\* No storage operation has run
NoStore ==
  [op |-> "none", this |-> Fresh, key |-> ConstantQueryable(""), fn |-> "",
   type |-> "", pk |-> 0, data |-> [fks |-> EmptyMap, assocs |-> EmptyMap],
   calls |-> <<>>, outcome |-> "none", error |-> Null,
   model |-> "",
   options |-> [associate |-> TRUE, validate |-> TRUE, transaction |-> ""],
   env |-> "", engine |-> <<>>, num |-> 0, result |-> Null,
   reported |-> <<>>, before |-> InitialRows]

InitStore ==
  /\ rows = InitialRows
  /\ lastStore = NoStore

\* no backend error has been coerced
NoCoercion == [ctor |-> "", err |-> <<>>, prefix |-> "", result |-> Null]
InitError == coercion = NoCoercion

\* no update is in flight
NoFlight ==
  [pc |-> "idle", this |-> Fresh,
   values |-> [id |-> 0, name |-> "", fks |-> EmptyMap, assocs |-> EmptyMap],
   hit |-> <<>>, data |-> <<>>, disturbed |-> FALSE, next |-> <<>>, log |-> <<>>]
InitTask == flight = NoFlight

Init == InitWhere /\ InitQuery /\ InitStore /\ InitError /\ InitTask

\* a plausible slip: the builder updates its receiver and returns it
NewQuery_reuseReceiver(heap, this, entry) ==
  Append([heap EXCEPT ![this] = entry], entry)

\* return new Query(this.db, this.model, options): one more object; the
\* receiver (at index this) and every other object are left as they are
NewQuery(heap, this, entry) == Append(heap, entry)

\* The end of a builder call on queries[this]
Return(call, result, skips, takes, merged) ==
  /\ IF result = Threw
       THEN /\ queries' = queries
            /\ lastCall' = [call EXCEPT !.outcome = "threw"]
       ELSE /\ queries' = NewQuery(queries, call.this,
                                   Entry(result, skips, takes, merged))
            /\ lastCall' = [call EXCEPT !.outcome = "returned"]
  /\ UNCHANGED <<whereVars, storeVars, errorVars, taskVars>>

Receivers == IF Len(queries) < MaxQueries THEN 1..Len(queries) ELSE {}

\* The arguments of the builder calls (after query.spec.ts)
NameIsV1 == build(AttributeQueryable("name"), Const("v1"), "$eq")
AgeAboveV2 == build(AttributeQueryable("age"), Const("v2"), "$gt")
WhereArgs == {NameIsV1, AgeAboveV2}
AttributeArgs ==
  {<<Single(AttributeQueryable("name"))>>,
   <<Pair(CountAge, AttributeQueryable("age"))>>}
\* an ordering on a root attribute and one on an attribute of an included
\* association, given by its path
OrderArgs ==
  {<<[q |-> AttributeQueryable("name"), dir |-> "DESC"]>>,
   <<[q |-> attribute("mentee.name"), dir |-> "ASC"]>>}
GroupByArgs == {<<AttributeQueryable("age")>>}
Nums == 0..MaxNum
ExtraArgs ==
  {EmptyMap, fromPairs("required", "true"), fromPairs("associateOnly", "false"),
   fromPairs("as", "mentee")}
\* what a query callback returns on the fresh query it is given
SubArgs ==
  {Null, where(Fresh, NameIsV1),
   include(Fresh, AssociationQueryable("mentee"), EmptyMap, Null)}

CallWhere == \E this \in Receivers, wh \in WhereArgs :
  LET e == queries[this]
  IN  Return([NoCall EXCEPT !.op = "where", !.this = this],
             where(e.q, wh), e.skips, e.takes, e.merged)

CallAttributes == \E this \in Receivers, list \in AttributeArgs :
  LET e == queries[this]
  IN  Return([NoCall EXCEPT !.op = "attributes", !.this = this],
             attributes(e.q, list), e.skips, e.takes, e.merged)

CallOrder == \E this \in Receivers, list \in OrderArgs :
  LET e == queries[this]
  IN  Return([NoCall EXCEPT !.op = "order", !.this = this],
             order(e.q, list), e.skips, e.takes, e.merged)

CallGroupBy == \E this \in Receivers, list \in GroupByArgs :
  LET e == queries[this]
  IN  Return([NoCall EXCEPT !.op = "groupBy", !.this = this],
             groupBy(e.q, list), e.skips, e.takes, e.merged)

CallSkip == \E this \in Receivers, num \in Nums :
  LET e == queries[this]
  IN  Return([NoCall EXCEPT !.op = "skip", !.this = this, !.num = num],
             skip(e.q, num), e.skips + num, e.takes, e.merged)

CallTake == \E this \in Receivers, num \in Nums :
  LET e == queries[this]
  IN  Return([NoCall EXCEPT !.op = "take", !.this = this, !.num = num],
             take(e.q, num), e.skips, e.takes + num, e.merged)

CallInclude ==
  \E this \in Receivers, key \in {"mentor", "mentee"},
     extra \in ExtraArgs, sub \in SubArgs :
    LET e == queries[this]
    IN  Return([NoCall EXCEPT !.op = "include", !.this = this,
                              !.assocKey = key, !.extra = extra, !.sub = sub],
               include(e.q, AssociationQueryable(key), extra, sub),
               e.skips, e.takes, e.merged)

CallIncludeAll == \E this \in Receivers, extra \in ExtraArgs :
  LET e == queries[this]
  IN  Return([NoCall EXCEPT !.op = "includeAll", !.this = this, !.extra = extra],
             includeAll(e.q, extra), e.skips, e.takes, e.merged)

CallMerge == \E this \in Receivers, other \in 1..Len(queries) :
  LET e == queries[this]
  IN  Return([NoCall EXCEPT !.op = "merge", !.this = this, !.other = other],
             merge(e.q, queries[other].q), e.skips, e.takes, TRUE)

Next ==
  \/ CallWhere \/ CallAttributes \/ CallOrder \/ CallGroupBy
  \/ CallSkip \/ CallTake \/ CallInclude \/ CallIncludeAll \/ CallMerge

Spec == Init /\ [][Next]_vars

\* The comparison methods alone
NextBuild == CompareAny
SpecBuild == Init /\ [][NextBuild]_vars

\* The where algebra: comparisons of attributes combined with and / or
NextWhere == CompareLeaf \/ And \/ Or
SpecWhere == Init /\ [][NextWhere]_vars

---------------------------------------------------------------------------
(* Aggregation (query.ts): the key of the aggregate is compiled to its     *)
(* left form while the arguments of the storage call are built.            *)

SyntaxError == [t |-> "error", name |-> "SyntaxError"]

\* Query.aggregate (min, max and sum delegate to it): the storage-engine
\* calls issued and the outcome of the promise
aggregate(this, fn, key) ==
  IF compileLeftThrows(key)
    THEN [calls |-> <<>>, outcome |-> "rejected", error |-> SyntaxError]
    ELSE [calls |-> <<[call |-> "aggregate", field |-> compileLeft(key),
                       fn |-> fn, where |-> compileWheres(this)]>>,
          outcome |-> "resolved", error |-> Null]

AggregateFns == {"min", "max", "sum"}
AggregateQueries == {Fresh, where(Fresh, NameIsV1)}

Aggregate == \E this \in AggregateQueries, fn \in AggregateFns, key \in Lefts :
  /\ lastStore' = [NoStore EXCEPT !.op = "aggregate", !.this = this,
                                  !.fn = fn, !.key = key,
                                  !.calls = aggregate(this, fn, key).calls,
                                  !.outcome = aggregate(this, fn, key).outcome,
                                  !.error = aggregate(this, fn, key).error]
  /\ UNCHANGED <<whereVars, queryVars, rows, errorVars, taskVars>>

\* every comparison method on every kind of queryable, with a constant operand
ConstOperands == {Const("v1")}
CompareConst == \E this \in Lefts, method \in Methods, other \in ConstOperands :
                  Compare(this, method, other)

\* The comparison methods and the aggregates: every use of a left projection
NextLeft == CompareConst \/ Aggregate
SpecLeft == Init /\ [][NextLeft]_vars

---------------------------------------------------------------------------
(* Validation errors (query.ts) *)

\* The attributes and associations the test models declare
ModelAttributes ==
  [actor |-> {"id", "name", "age"}, list |-> {"id", "name"},
   listItem |-> {"id", "value"}]
ModelAssociations ==
  [actor |-> {"mentor", "mentee", "costars"}, list |-> {"items"},
   listItem |-> {"parent"}]

\* item.type.toLowerCase() on the types Sequelize gives its error items
toLowerCase ==
  [x \in {"notNull Violation", "unique violation", "string violation",
          "Validation error"} |->
     CASE x = "notNull Violation" -> "notnull violation"
       [] x = "Validation error" -> "validation error"
       [] OTHER -> x]

\* One item of a Sequelize validation error
ErrorItem(path, type) == [path |-> path, type |-> type]

Undefined == [t |-> "undefined"]

\* a plausible slip: only the keys preset to [] get the prefix
errorKey_violatedBare(prefix, key, preset) ==
  IF preset /\ prefix # "" THEN prefix \o "." \o key ELSE key

\* (prefix ? prefix + '.' : '') + key, the key an entry of the errors object
\* is stored under; preset tells the loop that presets every key to [] from
\* the loop over the violated paths
errorKey(prefix, key, preset) ==
  IF prefix # "" THEN prefix \o "." \o key ELSE key

\* the message a violation is mapped to; the switch has no default case
coerceItem(item) ==
  CASE toLowerCase[item.type] = "notnull violation" ->
         Obj([type |-> Lit("attribute.required"), message |-> Lit("Required")])
    [] toLowerCase[item.type] = "unique violation" ->
         Obj([type |-> Lit("attribute.unique"), message |-> Lit("Not unique")])
    [] toLowerCase[item.type] = "string violation" ->
         Obj([type |-> Lit("attribute.string"), message |-> Lit("Not a string")])
    [] OTHER -> Undefined

\* a plausible slip: every violated path is taken for a constraint
isConstraint_always(attrKeys, key) == TRUE

\* !_.includes(attrKeys, key): the violated path is not an attribute
isConstraint(attrKeys, key) == key \notin attrKeys

\* err.get(key): the items of the error on that path, mapped
coerceItems(err, path) ==
  LET at == SelectSeq(err, LAMBDA e : e.path = path)
  IN  Arr([i \in 1..Len(at) |-> coerceItem(at[i])])

\* coerceValidationError(ctor, err, prefix); err is the sequence of error
\* items, prefix is "" when none is passed. The result holds the errors
\* object in two parts: errors, its keys other than $constraints, and
\* constraints, the object under $constraints (absent when it has no key).
coerceValidationError(ctor, err, prefix) ==
  LET attrKeys == ModelAttributes[ctor]
      preset == attrKeys \cup ModelAssociations[ctor]
      paths == {err[i].path : i \in 1..Len(err)}
      attrPaths == {k \in paths : ~isConstraint(attrKeys, k)}
      otherPaths == {k \in paths : isConstraint(attrKeys, k)}
      seededKeys == {errorKey(prefix, k, TRUE) : k \in preset}
      attrErrorKeys == {errorKey(prefix, k, FALSE) : k \in attrPaths}
      pathOf(key, from) == CHOOSE k \in from : errorKey(prefix, k, FALSE) = key
  IN  [t |-> "ValidationError", ctor |-> ctor, message |-> "Validation error",
       errors |->
         [key \in seededKeys \cup attrErrorKeys |->
            IF key \in attrErrorKeys
              THEN coerceItems(err, pathOf(key, attrPaths)) ELSE Arr(<<>>)],
       constraints |->
         [key \in {errorKey(prefix, k, FALSE) : k \in otherPaths} |->
            coerceItems(err, pathOf(key, otherPaths))]]

---------------------------------------------------------------------------
(* coerceValidationError as a state machine: a backend validation error    *)
(* with a constructor and a prefix is at hand, and is coerced.             *)

\* the paths of the violations: an attribute of Actor and List, the name of
\* a unique constraint, an association of Actor
ViolationPaths == {"name", "actor_name_key", "mentor"}
ViolationTypes == DOMAIN toLowerCase
Violations == {ErrorItem(p, ty) : p \in ViolationPaths, ty \in ViolationTypes}

\* err.errors: up to MaxErrs violations
BackendErrors == UNION {[1..n -> Violations] : n \in 0..MaxErrs}

Prefixes == {"", "mentor", "items"}

CoerceInputs ==
  coercion \in {[NoCoercion EXCEPT !.ctor = ctor, !.err = err, !.prefix = prefix] :
                  ctor \in DOMAIN ModelAttributes, err \in BackendErrors,
                  prefix \in Prefixes}

Coerce ==
  /\ coercion.ctor # "" /\ coercion.result = Null
  /\ coercion' = [coercion EXCEPT
                    !.result = coerceValidationError(coercion.ctor, coercion.err,
                                                     coercion.prefix)]
  /\ UNCHANGED <<whereVars, queryVars, storeVars, taskVars>>

NextCoerce == Coerce
\* the state before the call: a backend error, a model and a prefix at hand
InitCoerce == InitWhere /\ InitQuery /\ InitStore /\ CoerceInputs /\ InitTask
SpecCoerce == InitCoerce /\ [][NextCoerce]_vars

---------------------------------------------------------------------------
(* The association engine (query.ts)                                       *)
(*                                                                         *)
(* A primary or foreign key value is a number, 0 standing for a key that   *)
(* is unset (undefined or null): the code tests these values by their      *)
(* truthiness. The value of an association in the data is Undefined, Null, *)
(* One(item) or Many(items); an item is a plain object, of which the model *)
(* keeps the primary key value, the set of its other own keys, the         *)
(* attribute the create pre-stamp assigned and its value, and the error    *)
(* the backend raises when the item is saved (<<>> when the save succeeds).*)

\* The associations the test models declare, as Sequelize knows them:
\* foreignKey is the identifier of a belongs-to (a column of the source) and
\* the back-pointing column of the target for a has-one or has-many;
\* targetAssoc tells whether the declaration names the reverse association
Associations ==
  [mentor |-> [model |-> "actor", associationType |-> "BelongsTo",
               target |-> "actor", foreignKey |-> "mentorId", targetAssoc |-> FALSE],
   mentee |-> [model |-> "actor", associationType |-> "HasOne",
               target |-> "actor", foreignKey |-> "actorId", targetAssoc |-> FALSE],
   costars |-> [model |-> "actor", associationType |-> "BelongsToMany",
                target |-> "actor", foreignKey |-> "actorId", targetAssoc |-> FALSE],
   items |-> [model |-> "list", associationType |-> "HasMany",
              target |-> "listItem", foreignKey |-> "parentId", targetAssoc |-> FALSE],
   agent |-> [model |-> "actor", associationType |-> "HasOne",
              target |-> "", foreignKey |-> "actorId", targetAssoc |-> FALSE],
   rival |-> [model |-> "actor", associationType |-> "HasOne",
              target |-> "actor", foreignKey |-> "actorId", targetAssoc |-> FALSE]]

\* Two more associations stand for the declarations the engine cannot use:
\* agent is declared with a lazy target that resolves to nothing, rival is
\* declared on the model but not defined on the backend
\* assocs[key]: the alias is an association the model declares
declared(key) == key \in DOMAIN Associations

\* internalModel.associations[key]: the backend knows the association
internal(key) == key # "rival"

\* assocModel, "" when the target of the association resolves to nothing
resolved(key) == Associations[key].target

\* the primary key of a row the backend does not hold
MissingId == 9

\* the error of a setter the backend rejects; it is not a validation error
ForeignKeyError == [t |-> "ForeignKeyConstraintError"]

\* the backend rejects a setter handed an item whose row it does not hold
setterFails(target) ==
  /\ target # Null
  /\ \E j \in 1..Len(IF target.t = "many" THEN target.items ELSE <<target.item>>) :
       (IF target.t = "many" THEN target.items ELSE <<target.item>>)[j].id = MissingId

\* options.transaction when the caller passes none
NoTransaction == ""

One(item) == [t |-> "one", item |-> item]
Many(items) == [t |-> "many", items |-> items]

NoStamp == [key |-> "", v |-> 0]
Item(id, keys, err) == [id |-> id, keys |-> keys, err |-> err, stamped |-> NoStamp]

\* a plausible slip: a key the data lacks reads as null
valueOf_missingIsNull(data, key) ==
  IF key \in DOMAIN data.assocs /\ data.assocs[key] # Undefined
    THEN data.assocs[key] ELSE Null

\* (data as object)[key]
valueOf(data, key) ==
  IF key \in DOMAIN data.assocs THEN data.assocs[key] ELSE Undefined

\* a plausible slip: the foreign key is read under a name the data lacks
foreignValue_missing(data, identifier) == 0

\* (data as any)[identifier]
foreignValue(data, identifier) ==
  IF identifier \in DOMAIN data.fks THEN data.fks[identifier] ELSE 0

\* The attribute the create pre-stamp writes. getAssociationOptions is given
\* assocModel.constructor, the constructor of a class, which carries no
\* metadata: when there is a targetAssoc its options are {} and the name is
\* undefined + 'Id'; with no targetAssoc it is modelName + 'Id'
targetAssocForeignKey(internalAssoc) ==
  IF internalAssoc.targetAssoc THEN "undefined" \o "Id"
  ELSE internalAssoc.model \o "Id"

\* obj[targetAssocForeignKey] = internalInstance.get(primary); the guard
\* getAttributeOptions(...) is an object spread and so always truthy
stamp(obj, key, pk) ==
  [obj EXCEPT !.keys = @ \cup {key}, !.stamped = [key |-> key, v |-> pk]]

\* a plausible slip: the associateOnly mark is not consulted
savesNested_ignoresAssociateOnly(inc, values) ==
  values.id = 0 \/ values.keys # {}

\* coerceSave's condition: isNewRecord || (!include.associateOnly &&
\* keys.filter(key => key !== internalAssocPrimary).length > 0)
savesNested(inc, values) ==
  values.id = 0 \/ (inc.associateOnly # "true" /\ values.keys # {})

\* The storage-engine calls the engine issues
SaveCall(key, values, transaction) ==
  [call |-> "save", as |-> key, values |-> values, isNewRecord |-> values.id = 0,
   transaction |-> transaction]
SetCall(key, target, transaction) ==
  [call |-> "set", as |-> key, target |-> target, transaction |-> transaction]
\* a plausible slip: the reload reads the root row alone
ReloadCall_rootOnly(pk, includes, transaction) ==
  [call |-> "reload", pk |-> pk, include |-> <<>>, transaction |-> transaction]
ReloadCall(pk, includes, transaction) ==
  [call |-> "reload", pk |-> pk, include |-> compileIncludes(includes),
   transaction |-> transaction]

\* The loop of Query.associate from include i on, calls being the calls
\* issued so far. The result holds the calls issued in order, the outcome
\* (reloaded, rejected with a ValidationError, or threw a TypeError) and, for
\* a rejection, the errors it may carry: Promise.all rejects with the error
\* of whichever failing save of the include settles first.
RECURSIVE associateFrom(_, _, _, _, _, _, _)
associateFrom(type, pk, data, includes, transaction, i, calls) ==
  IF i > Len(includes)
    THEN [calls |-> Append(calls, ReloadCall(pk, includes, transaction)),
          outcome |-> "reloaded", errors |-> {Null}]
  ELSE
    LET inc == includes[i]
        key == inc.as
        value == valueOf(data, key)
        internalAssoc == Associations[key]
        stamps == /\ type = "create"
                  /\ internalAssoc.associationType \in {"HasOne", "HasMany"}
        items == IF value.t = "many" THEN value.items ELSE <<value.item>>
        stamped == [j \in 1..Len(items) |->
                      IF stamps
                        THEN stamp(items[j], targetAssocForeignKey(internalAssoc), pk)
                        ELSE items[j]]
        saved == SelectSeq(stamped, LAMBDA v : savesNested(inc, v))
        saves == [j \in 1..Len(saved) |-> SaveCall(key, saved[j], transaction)]
        failed == {j \in 1..Len(saved) : saved[j].err # <<>>}
        coerced == IF value.t = "many" THEN Many(stamped) ELSE One(stamped[1])
    IN  IF ~declared(key)
          THEN [calls |-> calls, outcome |-> "threw", errors |-> {Threw}]
        ELSE IF ~internal(key) \/ resolved(key) = "" \/ value = Undefined
          THEN associateFrom(type, pk, data, includes, transaction, i + 1, calls)
        ELSE IF /\ internalAssoc.associationType = "BelongsTo"
                /\ foreignValue(data, internalAssoc.foreignKey) # 0
          THEN associateFrom(type, pk, data, includes, transaction, i + 1, calls)
        ELSE IF stamps /\ value = Null
          THEN [calls |-> calls, outcome |-> "threw", errors |-> {Threw}]
        ELSE IF value = Null
          THEN associateFrom(type, pk, data, includes, transaction, i + 1,
                             Append(calls, SetCall(key, Null, transaction)))
        ELSE IF failed # {}
          THEN [calls |-> calls \o saves, outcome |-> "rejected",
                errors |-> {coerceValidationError(internalAssoc.target,
                                                  saved[j].err, key) : j \in failed}]
        ELSE IF setterFails(coerced)
          THEN [calls |-> Append(calls \o saves, SetCall(key, coerced, transaction)),
                outcome |-> "failed", errors |-> {ForeignKeyError}]
        ELSE associateFrom(type, pk, data, includes, transaction, i + 1,
                           Append(calls \o saves, SetCall(key, coerced, transaction)))

\* Query.associate(type, model, internalInstance, data, includes): pk is the
\* primary key of internalInstance, includes the includes option of the query
associate(type, pk, data, includes, transaction) ==
  IF ~includes.def \/ Len(includes.v) < 1
    THEN [calls |-> <<>>, outcome |-> "untouched", errors |-> {Null}]
    ELSE associateFrom(type, pk, data, includes.v, transaction, 1, <<>>)

---------------------------------------------------------------------------
(* Storage operations (query.ts): save, create and update.                 *)
(*                                                                         *)
(* rows holds, for each root model, the plain attributes of its rows; the  *)
(* writes the engine makes to nested rows and to foreign keys are kept as  *)
(* the calls issued. An instance (or a partial of values) holds its        *)
(* primary key id (0 when unset), its name ("" when unset), its foreign    *)
(* keys and the values of its associations. env is what the environment    *)
(* does to the operation: "ok", "invalid" (the ModelSafe validation        *)
(* rejects) or "backend" (the backend rejects the root write).             *)

\* the where options a row satisfies: equality on the primary key and on name
matches(whereOptions, id, row) ==
  \A k \in DOMAIN whereOptions :
    CASE k = "id" -> whereOptions[k].v = id
      [] k = "name" -> whereOptions[k].v = row.name
      [] OTHER -> TRUE

\* the primary keys of the rows a where and a limit select, in key order
selected(table, whereOptions, limit) ==
  LET ids == SelectSeq([i \in 1..Len(table) |-> i],
                       LAMBDA i : matches(whereOptions, i, table[i]))
  IN  IF limit.def /\ Len(ids) > limit.v THEN SubSeq(ids, 1, limit.v) ELSE ids

\* this.options.taken > 0 ? this.options.taken : undefined
limitOf(this) ==
  IF this.options.taken > 0 THEN [def |-> TRUE, v |-> this.options.taken]
  ELSE NoNum

\* the row a find returns
Row(table, id) == [id |-> id, name |-> table[id].name]

\* The storage-engine calls of the root operations
UpdateCall(values, whereOptions, limit, transaction) ==
  [call |-> "update", values |-> values, where |-> whereOptions, limit |-> limit,
   transaction |-> transaction]
\* a plausible slip: the read-back runs outside the transaction
FindAllCall_outside(whereOptions, limit, transaction) ==
  [call |-> "findAll", where |-> whereOptions, limit |-> limit,
   transaction |-> NoTransaction]
FindAllCall(whereOptions, limit, transaction) ==
  [call |-> "findAll", where |-> whereOptions, limit |-> limit,
   transaction |-> transaction]
CreateCall(values, transaction) ==
  [call |-> "create", values |-> values, transaction |-> transaction]

\* the error of a ModelSafe validation
Invalid == [t |-> "ValidationError", ctor |-> "", message |-> "invalid"]

\* the error the backend raises on a root write it rejects
BackendError == <<ErrorItem("name", "string violation")>>

\* Query.prepare(instance, true): the serialized instance, with the foreign
\* key of every included belongs-to taken from the id of the association
\* value, or else from the foreign key of the instance; Threw when a value
\* is given under an alias the backend has no association for
RECURSIVE prepareFrom(_, _, _)
prepareFrom(data, includes, i) ==
  IF i > Len(includes) THEN data
  ELSE
    LET key == includes[i].as
        value == valueOf(data, key)
        internalAssoc == Associations[key]
        identifier == internalAssoc.foreignKey
        id == IF value.item.id # 0 THEN value.item.id
              ELSE foreignValue(data, identifier)
    IN  IF value \in {Undefined, Null} THEN prepareFrom(data, includes, i + 1)
        ELSE IF ~declared(key) \/ ~internal(key) THEN Threw
        ELSE IF internalAssoc.associationType = "BelongsTo" /\ id # 0
          THEN prepareFrom([data EXCEPT !.fks = extend(@, fromPairs(identifier, id))],
                           includes, i + 1)
        ELSE prepareFrom(data, includes, i + 1)

prepare(this, instance) == prepareFrom(instance, OrEmpty(this.options.includes), 1)

---------------------------------------------------------------------------
(* save, create and update (query.ts). Each gives the calls issued in      *)
(* order, the runs of the engine on the re-read rows of an update, the     *)
(* outcome with the errors a rejection may carry, the value resolved to,   *)
(* the rows the backend update reported, and the tables afterwards.        *)

\* a plausible slip: a failure of the engine undoes the root write
keptOnFailure_rolledBack(before, after) == before

\* the tables when the engine has failed after the root write: the await of
\* associate is in no try block, nothing is undone
keptOnFailure(before, after) == after

Rejected(tables) ==
  [calls |-> <<>>, engine |-> <<>>, outcome |-> "rejected", errors |-> {Invalid},
   num |-> 0, result |-> Null, reported |-> <<>>, rows |-> tables]

\* Query.create
create(model, this, instance, options, env, tables) ==
  LET values == prepare(this, instance)
      pk == Len(tables[model]) + 1
      inserted == [tables EXCEPT ![model] = Append(@, [name |-> instance.name])]
      r == associate("create", pk, values, this.options.includes,
                     options.transaction)
      issued == [Rejected(tables) EXCEPT
                   !.calls = <<CreateCall(values, options.transaction)>>]
  IN  IF options.validate /\ env = "invalid" THEN Rejected(tables)
      ELSE IF values = Threw
        THEN [Rejected(tables) EXCEPT !.outcome = "threw", !.errors = {Threw}]
      ELSE IF env = "backend"
        THEN [issued EXCEPT
                !.errors = {coerceValidationError(model, BackendError, "")}]
      ELSE IF ~options.associate \/ r.outcome \in {"reloaded", "untouched"}
        THEN [issued EXCEPT
                !.calls = IF options.associate THEN @ \o r.calls ELSE @,
                !.outcome = "resolved", !.errors = {Null},
                !.result = Row(inserted[model], pk), !.rows = inserted]
      ELSE [issued EXCEPT !.calls = @ \o r.calls, !.outcome = r.outcome,
                          !.errors = r.errors,
                          !.rows = keptOnFailure(tables, inserted)]

\* a plausible slip: the re-read drops the limit of the query
findAll_unlimited(table, whereOptions, limit) == selected(table, whereOptions, NoNum)

\* internalModel.findAll({ where, limit }): the primary keys of the rows read
findAll(table, whereOptions, limit) == selected(table, whereOptions, limit)

\* Query.update
update(model, this, values, options, env, tables) ==
  LET whereOptions == compileWheres(this)
      limit == limitOf(this)
      table == tables[model]
      hit == selected(table, whereOptions, limit)
      written == [i \in 1..Len(table) |->
                    IF values.name # "" /\ \E j \in 1..Len(hit) : hit[j] = i
                      THEN [table[i] EXCEPT !.name = values.name] ELSE table[i]]
      data == findAll(written, whereOptions, limit)
      runs == [j \in 1..Len(data) |->
                 associate("update", data[j], values, this.options.includes,
                           options.transaction)]
      failing == {j \in 1..Len(data) :
                    runs[j].outcome \in {"rejected", "threw", "failed"}}
      issued == [Rejected(tables) EXCEPT
                   !.calls = <<UpdateCall(values, whereOptions, limit,
                                          options.transaction)>>]
      read == [issued EXCEPT
                 !.calls = Append(@, FindAllCall(whereOptions, limit,
                                                 options.transaction)),
                 !.num = Len(hit),
                 !.reported = [j \in 1..Len(hit) |-> Row(written, hit[j])],
                 !.rows = [tables EXCEPT ![model] = written]]
  IN  IF options.validate /\ env = "invalid" THEN Rejected(tables)
      ELSE IF env = "backend"
        THEN [issued EXCEPT
                !.errors = {coerceValidationError(model, BackendError, "")}]
      ELSE IF options.associate /\ failing # {}
        THEN [read EXCEPT
                !.engine = [j \in 1..Len(data) |->
                              [pk |-> data[j], calls |-> runs[j].calls,
                               outcome |-> runs[j].outcome]],
                !.outcome = runs[CHOOSE j \in failing : TRUE].outcome,
                !.errors = UNION {runs[j].errors : j \in failing},
                !.rows = keptOnFailure(tables, [tables EXCEPT ![model] = written])]
      ELSE [read EXCEPT
              !.engine = IF options.associate
                           THEN [j \in 1..Len(data) |->
                                   [pk |-> data[j], calls |-> runs[j].calls,
                                    outcome |-> runs[j].outcome]]
                           ELSE <<>>,
              !.outcome = "resolved", !.errors = {Null},
              !.result = [num |-> Len(hit),
                          rows |-> [j \in 1..Len(data) |-> Row(written, data[j])]]]

\* a plausible slip: the update is not scoped to the primary key
save_unscoped(model, this, instance, options, env, tables) ==
  LET u == update(model, this, instance, options, env, tables)
  IN  IF instance.id # 0
        THEN IF options.validate /\ env = "invalid" THEN Rejected(tables)
             ELSE IF u.outcome # "resolved" THEN u
             ELSE IF u.result.num < 1 \/ Len(u.result.rows) < 1
               THEN [u EXCEPT !.result = Null]
             ELSE [u EXCEPT !.result = u.result.rows[1]]
        ELSE create(model, this, instance, options, env, tables)

\* Query.save
save(model, this, instance, options, env, tables) ==
  LET primary == AttributeQueryable("id")
      primaryValue == instance.id
      scoped == where(this, build(primary, Const(primaryValue), "$eq"))
      u == update(model, scoped, instance, options, env, tables)
  IN  IF primaryValue # 0
        THEN IF options.validate /\ env = "invalid" THEN Rejected(tables)
             ELSE IF u.outcome # "resolved" THEN u
             ELSE IF u.result.num < 1 \/ Len(u.result.rows) < 1
               THEN [u EXCEPT !.result = Null]
             ELSE [u EXCEPT !.result = u.result.rows[1]]
        ELSE create(model, this, instance, options, env, tables)

---------------------------------------------------------------------------
(* The association engine as a state machine: create or update has        *)
(* written the root row and hands it to the engine with the data and the  *)
(* includes of the query.                                                 *)

\* The errors the backend raises on a nested save
NameRequired == <<ErrorItem("name", "notNull Violation")>>
NameNotUnique == <<ErrorItem("actor_name_key", "unique violation")>>

\* The nested items: brand-new or existing, with or without a key beside
\* the primary key, saved with or without an error
EngineItems ==
  {Item(id, keys, <<>>) : id \in {0, 2}, keys \in {{}, {"name"}}}
  \cup {Item(id, {"name"}, NameRequired) : id \in {0, 2}}
  \cup {Item(0, {"name"}, NameNotUnique)}
  \cup {Item(MissingId, {}, <<>>)}

\* the values of the association of the first include
FirstValues(key) ==
  IF ~declared(key) \/ ~internal(key) \/ resolved(key) = ""
    THEN {Undefined, Null, One(Item(0, {"name"}, <<>>))}
  ELSE IF Associations[key].associationType \in {"HasMany", "BelongsToMany"}
    THEN {Undefined, Null, Many(<<>>)}
           \cup {Many(<<x>>) : x \in EngineItems}
           \cup {Many(<<x, y>>) :
                   x \in EngineItems,
                   y \in {Item(2, {}, <<>>), Item(0, {"name"}, NameRequired)}}
    ELSE {Undefined, Null} \cup {One(x) : x \in EngineItems}

\* the values of the association of a second include
SecondValues(key) ==
  IF Associations[key].associationType \in {"HasMany", "BelongsToMany"}
    THEN {Undefined, Null, Many(<<Item(0, {"name"}, <<>>)>>),
          Many(<<Item(2, {}, <<>>)>>), Many(<<Item(0, {"name"}, NameRequired)>>)}
    ELSE {Undefined, Null, One(Item(0, {"name"}, <<>>)), One(Item(2, {}, <<>>)),
          One(Item(0, {"name"}, NameRequired))}

\* associateOnly left at its default, or set to false
AssociateOnlyArgs == {EmptyMap, fromPairs("associateOnly", "false")}

\* The queries the engine runs for: no include, one include, two includes;
\* an include may name an association the engine cannot use, or the
\* attribute name, which is no association
EngineQueries ==
  {Fresh, include(Fresh, AttributeQueryable("name"), EmptyMap, Null)}
  \cup {include(Fresh, AssociationQueryable(k), e, Null) :
          k \in DOMAIN Associations, e \in AssociateOnlyArgs}
  \cup {include(include(Fresh, AssociationQueryable(k[1]), e, Null),
                AssociationQueryable(k[2]), e, Null) :
          k \in {<<"mentor", "mentee">>, <<"mentee", "mentor">>,
                 <<"mentee", "costars">>, <<"agent", "mentor">>,
                 <<"rival", "mentor">>},
          e \in AssociateOnlyArgs}

\* the data a caller may pass for a query: a value for each included
\* association and, when mentor is included, its foreign key set or unset;
\* update hands it to the engine as it is, create after prepare
EngineData(q) ==
  LET incs == OrEmpty(q.options.includes)
      keys == {incs[i].as : i \in 1..Len(incs)}
      fkValues == IF "mentor" \in keys THEN {0, 1} ELSE {0}
      assocValues ==
        {f \in [keys -> UNION {FirstValues(k) : k \in keys}] :
           \A i \in 1..Len(incs) :
             f[incs[i].as] \in IF i = 1 THEN FirstValues(incs[i].as)
                               ELSE SecondValues(incs[i].as)}
  IN  {[fks |-> fromPairs("mentorId", fk), assocs |-> f] :
         fk \in fkValues, f \in assocValues}

\* the primary key of the root row the engine is handed, that of a row the
\* root write has just added to the stored ones
RootPks == {Len(rows["actor"]) + 1}

\* the caller builds the query the next operation runs on
EngineQuery ==
  \E q \in EngineQueries :
    /\ lastStore' = [NoStore EXCEPT !.op = "query", !.this = q]
    /\ UNCHANGED <<whereVars, queryVars, rows, errorVars, taskVars>>

\* create or update hands the engine the root row with the data of the
\* caller, on the query at hand
Associate ==
  \E type \in {"create", "update"}, pk \in RootPks :
    \E given \in EngineData(lastStore.this) :
      LET q == lastStore.this
          data == IF type = "create" THEN prepare(q, given) ELSE given
      IN  /\ data # Threw
          /\ \E e \in associate(type, pk, data, q.options.includes,
                                NoTransaction).errors :
               LET r == associate(type, pk, data, q.options.includes, NoTransaction)
               IN  lastStore' = [NoStore EXCEPT
                                   !.op = "associate", !.type = type, !.pk = pk,
                                   !.this = q, !.data = data, !.calls = r.calls,
                                   !.outcome = r.outcome, !.error = e]
          /\ UNCHANGED <<whereVars, queryVars, rows, errorVars, taskVars>>

NextEngine == EngineQuery \/ Associate
SpecEngine == Init /\ [][NextEngine]_vars

---------------------------------------------------------------------------
(* The storage operations as a state machine: a caller runs save, create  *)
(* or update on a query; the tables change and lastStore keeps the run.   *)

\* the end of a storage operation with the run r
Stored(op, model, this, instance, options, env, r) ==
  \E e \in r.errors :
    /\ lastStore' = [NoStore EXCEPT
                       !.op = op, !.model = model, !.this = this,
                       !.data = instance, !.options = options, !.env = env,
                       !.calls = r.calls, !.engine = r.engine,
                       !.outcome = r.outcome, !.error = e, !.num = r.num,
                       !.result = r.result, !.reported = r.reported,
                       !.before = rows]
    /\ rows' = r.rows
    /\ UNCHANGED <<whereVars, queryVars, errorVars, taskVars>>

DefaultStoreOptions ==
  [associate |-> TRUE, validate |-> TRUE, transaction |-> NoTransaction]
StoreOptions ==
  {DefaultStoreOptions, [DefaultStoreOptions EXCEPT !.associate = FALSE],
   [DefaultStoreOptions EXCEPT !.validate = FALSE]}
Envs == {"ok", "invalid", "backend"}

\* The queries of the storage tests: all rows, the rows of a name, the first
\* row of a name, and the rows of a name with the mentee included
WithMentee ==
  include(where(Fresh, NameIsV1), AssociationQueryable("mentee"), EmptyMap, Null)
StoreQueries ==
  {Fresh, where(Fresh, NameIsV1), take(where(Fresh, NameIsV1), 1), WithMentee}

\* the values of the mentee of a stored instance
MenteeValues ==
  {Undefined, Null, One(Item(0, {"name"}, <<>>)), One(Item(0, {"name"}, NameRequired))}

\* the instances (or partials) passed to a query: an id among ids, a name
\* among names and, when the query includes the mentee, a mentee
Instances(this, ids, names) ==
  {[id |-> id, name |-> name, fks |-> fromPairs("mentorId", 0),
    assocs |-> fromPairs("mentee", mentee)] :
     id \in ids, name \in names,
     mentee \in IF this.options.includes.def THEN MenteeValues ELSE {Undefined}}

StoreUpdate ==
  \E this \in StoreQueries, options \in StoreOptions, env \in Envs :
    \E values \in Instances(this, {0}, {"", "v1", "v2"}) :
      Stored("update", "actor", this, values, options, env,
             update("actor", this, values, options, env, rows))

StoreCreate ==
  \E this \in {Fresh, WithMentee}, options \in StoreOptions, env \in Envs :
    \E instance \in Instances(this, {0}, {"v1", "v2"}) :
      /\ Len(rows["actor"]) < MaxRows
      /\ Stored("create", "actor", this, instance, options, env,
                create("actor", this, instance, options, env, rows))

StoreSave ==
  \E this \in StoreQueries, env \in {"ok", "invalid"} :
    \E instance \in Instances(this, 0..MaxRows, {"v1", "v2"}) :
      /\ instance.id = 0 => Len(rows["actor"]) < MaxRows
      /\ Stored("save", "actor", this, instance, DefaultStoreOptions, env,
                save("actor", this, instance, DefaultStoreOptions, env, rows))

NextStore == StoreSave \/ StoreCreate \/ StoreUpdate
SpecStore == Init /\ [][NextStore]_vars

---------------------------------------------------------------------------
(* Creating and updating with nested values: create on a query that        *)
(* includes a has-one (Actor.mentee) or a has-many (List.items), update on *)
(* a query that includes the has-one.                                      *)

NestedQueries ==
  {[model |-> Associations[k].model,
    q |-> include(Fresh, AssociationQueryable(k), e, Null)] :
     k \in {"mentee", "items"}, e \in AssociateOnlyArgs}

\* an instance named v1 with a value for the association of the query
NestedInstances(this) ==
  {[id |-> 0, name |-> "v1", fks |-> fromPairs("mentorId", 0),
    assocs |-> fromPairs(this.options.includes.v[1].as, value)] :
     value \in FirstValues(this.options.includes.v[1].as)}

\* the backend accepts the root write or rejects it
NestedEnvs == {"ok", "backend"}

NestedCreate ==
  \E sq \in NestedQueries :
    \E instance \in NestedInstances(sq.q) :
      \E env \in NestedEnvs :
        /\ Len(rows[sq.model]) < MaxRows
        /\ Stored("create", sq.model, sq.q, instance, DefaultStoreOptions, env,
                  create(sq.model, sq.q, instance, DefaultStoreOptions, env, rows))

NestedUpdate ==
  \E sq \in NestedQueries :
    \E values \in NestedInstances(sq.q) :
      \E env \in NestedEnvs :
        Stored("update", sq.model, sq.q, values, DefaultStoreOptions, env,
               update(sq.model, sq.q, values, DefaultStoreOptions, env, rows))

NextNested == NestedCreate \/ NestedUpdate
SpecNested == Init /\ [][NextNested]_vars

---------------------------------------------------------------------------
(* Creating and updating inside a transaction of the caller: the options   *)
(* carry a transaction, with or without the run of the engine.             *)

TxOptions ==
  {[DefaultStoreOptions EXCEPT !.transaction = "tx"],
   [DefaultStoreOptions EXCEPT !.transaction = "tx", !.associate = FALSE]}

TxQueries ==
  {[model |-> Associations[k].model,
    q |-> include(Fresh, AssociationQueryable(k), EmptyMap, Null)] :
     k \in {"mentee", "items"}}

\* an instance named v1 whose association is null, a new item, or a new
\* item the backend rejects
TxInstances(this) ==
  {x \in NestedInstances(this) :
     x.assocs[this.options.includes.v[1].as]
       \in {Null, One(Item(0, {"name"}, <<>>)), One(Item(0, {"name"}, NameRequired)),
            Many(<<Item(0, {"name"}, <<>>)>>),
            Many(<<Item(0, {"name"}, <<>>), Item(0, {"name"}, NameRequired)>>)}}

TxCreate ==
  \E sq \in TxQueries, options \in TxOptions :
    \E instance \in TxInstances(sq.q) :
      \E env \in NestedEnvs :
        /\ Len(rows[sq.model]) < MaxRows
        /\ Stored("create", sq.model, sq.q, instance, options, env,
                  create(sq.model, sq.q, instance, options, env, rows))

TxUpdate ==
  \E sq \in TxQueries, options \in TxOptions :
    \E values \in TxInstances(sq.q) :
      \E env \in NestedEnvs :
        Stored("update", sq.model, sq.q, values, options, env,
               update(sq.model, sq.q, values, options, env, rows))

NextTx == TxCreate \/ TxUpdate
SpecTx == Init /\ [][NextTx]_vars

---------------------------------------------------------------------------
(* Creating and updating with two included associations, whose nested      *)
(* saves and setter calls may fail.                                        *)

TwoIncludes ==
  {include(include(Fresh, AssociationQueryable(k[1]), EmptyMap, Null),
           AssociationQueryable(k[2]), EmptyMap, Null) :
     k \in {<<"mentee", "costars">>, <<"mentor", "mentee">>,
            <<"costars", "mentee">>}}

\* an instance named v1 with a value for each of the two associations
TwoInstances(this) ==
  {[id |-> 0, name |-> "v1", fks |-> d.fks, assocs |-> d.assocs] :
     d \in EngineData(this)}

\* the query is built
TwoQuery ==
  \E this \in TwoIncludes :
    /\ lastStore' = [NoStore EXCEPT !.op = "query", !.this = this]
    /\ UNCHANGED <<whereVars, queryVars, rows, errorVars, taskVars>>

\* create is called on the query at hand
TwoCreate ==
  \E instance \in TwoInstances(lastStore.this) :
    /\ lastStore.op = "query"
    /\ Len(rows["actor"]) < MaxRows
    /\ Stored("create", "actor", lastStore.this, instance, DefaultStoreOptions, "ok",
              create("actor", lastStore.this, instance, DefaultStoreOptions, "ok", rows))

\* update is called on the query at hand
TwoUpdate ==
  \E values \in TwoInstances(lastStore.this) :
    /\ lastStore.op = "query"
    /\ Stored("update", "actor", lastStore.this, values, DefaultStoreOptions, "ok",
              update("actor", lastStore.this, values, DefaultStoreOptions, "ok", rows))

NextTwo == TwoQuery \/ TwoCreate \/ TwoUpdate
SpecTwo == Init /\ [][NextTwo]_vars

---------------------------------------------------------------------------
(* update as a task among others (query.ts). The storage engine runs one   *)
(* call at a time; update awaits its backend update, then its findAll,     *)
(* then Promise.all of one run of the engine per re-read row, and at each  *)
(* await other tasks run. flight holds the point the update has reached:   *)
(* idle, written (the backend update resolved), associating (the findAll   *)
(* resolved and the rows run the engine), rejected (a row failed, which    *)
(* rejects Promise.all without stopping the other rows) or done; hit are   *)
(* the rows the write matched, data the rows read back, next the position  *)
(* of each row in the calls of its run, log the calls in the order the     *)
(* storage engine received them, disturbed tells whether another task      *)
(* wrote between the write and the read-back.                              *)

\* a plausible slip: the write and the read-back are taken for one call
suspends_notBeforeRead(pc) == pc \in {"associating", "rejected"}

\* the update is suspended at one of its awaits
suspends(pc) == pc \in {"written", "associating", "rejected"}

AllWithMentee == include(Fresh, AssociationQueryable("mentee"), EmptyMap, Null)
TaskQueries == {take(WithMentee, 2), take(AllWithMentee, 2)}
TaskValues == Instances(WithMentee, {0}, {""})

\* the run of the engine on the j-th re-read row
RowRun(j) ==
  associate("update", flight.data[j], flight.values, flight.this.options.includes,
            NoTransaction)

\* the rows whose run has ended in a failure
FailedRows ==
  {j \in 1..Len(flight.data) :
     /\ RowRun(j).outcome \in {"rejected", "threw", "failed"}
     /\ flight.next[j] > Len(RowRun(j).calls)}

\* data.map starts the runs in the order of the rows and each runs up to its
\* first call before a call of any run resolves
issuedFirst(k) == flight.next[k] > 1 \/ Len(RowRun(k).calls) = 0

\* update is called: the backend update is issued and resolves
UpdateWrites ==
  \E this \in TaskQueries, values \in TaskValues :
    /\ flight.pc = "idle"
    /\ flight' = [flight EXCEPT
                    !.pc = "written", !.this = this, !.values = values,
                    !.hit = selected(rows["actor"], compileWheres(this),
                                     limitOf(this))]
    /\ UNCHANGED <<whereVars, queryVars, storeVars, errorVars>>

\* the findAll is issued and resolves; every row starts its run
UpdateReads ==
  /\ flight.pc = "written"
  /\ LET data == findAll(rows["actor"], compileWheres(flight.this),
                         limitOf(flight.this))
     IN  flight' = [flight EXCEPT
                      !.pc = "associating", !.data = data,
                      !.next = [j \in 1..Len(data) |-> 1]]
  /\ UNCHANGED <<whereVars, queryVars, storeVars, errorVars>>

\* the storage engine receives the next call of a row; a row that fails
\* rejects the update, the other rows go on
RowStep ==
  \E j \in 1..Len(flight.data) :
    /\ flight.pc \in {"associating", "rejected"}
    /\ flight.next[j] <= Len(RowRun(j).calls)
    /\ \A k \in 1..Len(flight.data) :
         k < j \/ flight.next[j] > 1 => issuedFirst(k)
    /\ flight' = [flight EXCEPT
                    !.log = Append(@, [row |-> j, n |-> flight.next[j]]),
                    !.next[j] = @ + 1,
                    !.pc = IF /\ flight.next[j] = Len(RowRun(j).calls)
                              /\ RowRun(j).outcome \in {"rejected", "threw", "failed"}
                             THEN "rejected" ELSE @]
    /\ UNCHANGED <<whereVars, queryVars, storeVars, errorVars>>

\* every run has resolved: update resolves
UpdateResolves ==
  /\ flight.pc = "associating"
  /\ \A j \in 1..Len(flight.data) : flight.next[j] > Len(RowRun(j).calls)
  /\ flight' = [flight EXCEPT !.pc = "done"]
  /\ UNCHANGED <<whereVars, queryVars, storeVars, errorVars>>

\* another task renames a row
ConcurrentWrite ==
  \E i \in 1..Len(rows["actor"]), name \in {"v1", "v2"} :
    /\ flight.pc = "idle" \/ suspends(flight.pc)
    /\ rows["actor"][i].name # name
    /\ rows' = [rows EXCEPT !["actor"][i].name = name]
    /\ flight' = [flight EXCEPT !.disturbed = @ \/ flight.pc = "written"]
    /\ UNCHANGED <<whereVars, queryVars, lastStore, errorVars>>

NextTask ==
  UpdateWrites \/ UpdateReads \/ RowStep \/ UpdateResolves \/ ConcurrentWrite
SpecTask == Init /\ [][NextTask]_vars

---------------------------------------------------------------------------
(* Properties of the queryable algebra and of Where *)

\* The value a comparison puts on the right: the operand itself, or the
\* right-side form of an operand that is a queryable
RightValue(other) ==
  IF other.isQueryable THEN compileRight(other.q) ELSE Lit(other.v)

\* C2: a comparison on a left-compilable queryable a compiles to the one-key
\* map {a.compileLeft(): v} for eq and to {a.compileLeft(): {op: v}}, with
\* the single operator key op of the method, for every other method; an
\* operand that is a queryable contributes its compileRight() value.
C2_ComparisonCompiles ==
  (lastOp.op = "build" /\ ~thrown) =>
    LET key == lastOp.this.name
        opKey == "$" \o lastOp.method
    IN  /\ DOMAIN w = {key}
        /\ IF lastOp.method = "eq"
             THEN w[key] = RightValue(lastOp.other)
             ELSE /\ w[key].t = "obj"
                  /\ DOMAIN w[key].m = {opKey}
                  /\ w[key].m[opKey] = RightValue(lastOp.other)

\* C2 witness: a constant compared by a non-identity method to a function call
C2_Witness ==
  /\ lastOp.op = "build" /\ ~thrown
  /\ lastOp.this.kind = "constant"
  /\ lastOp.method = "notBetween"
  /\ lastOp.other.isQueryable /\ lastOp.other.q.kind = "function"
  /\ w = fromPairs("v1", Obj(fromPairs("$notBetween",
           Fn("COUNT", <<Col("age")>>))))

\* the maps of a sequence have pairwise disjoint top-level keys
PairwiseDisjoint(ms) ==
  \A i, j \in 1..Len(ms) : i # j => (DOMAIN ms[i]) \cap (DOMAIN ms[j]) = {}

\* the union of the maps of a sequence
RECURSIVE UnionOf(_)
UnionOf(ms) ==
  IF ms = <<>> THEN EmptyMap ELSE extend(UnionOf(SubSeq(ms, 1, Len(ms) - 1)), ms[Len(ms)])

\* C3: and-ing Wheres whose compiled maps have pairwise disjoint top-level
\* keys compiles to exactly the union of the maps, for one and and for a
\* chain of ands (every key of every operand at top level, and no other key).
C3_AndIsUnion ==
  (lastOp.op = "and" /\ PairwiseDisjoint(parts)) => w = UnionOf(parts)

\* C4: when both operands of and constrain a key k, the result's value on k
\* is the second operand's.
C4_SecondOperandWins ==
  lastOp.op = "and" =>
    \A k \in (DOMAIN lastOp.x) \cap (DOMAIN lastOp.y) : w[k] = lastOp.y[k]

\* C5: x.or(y) compiles to exactly {$or: [x.compile(), y.compile()]}, both
\* operands in order under the single key $or, nested disjunctions kept.
C5_OrWrapsBoth ==
  lastOp.op = "or" =>
    /\ DOMAIN w = {"$or"}
    /\ w["$or"].t = "arr"
    /\ Len(w["$or"].a) = 2
    /\ w["$or"].a[1] = Obj(lastOp.x)
    /\ w["$or"].a[2] = Obj(lastOp.y)

\* C5 witness: the receiver of or is itself a disjunction
C5_Witness ==
  /\ lastOp.op = "or"
  /\ "$or" \in DOMAIN lastOp.x
  /\ w["$or"].a[1].m["$or"].t = "arr"

\* C11: column, function-call and alias queryables have no left projection:
\* every comparison method called on one throws and yields no Where, and an
\* aggregate keyed by one fails before any storage-engine call is issued;
\* attribute, association and constant queryables never throw.
C11_NoLeftProjection ==
  /\ lastOp.op = "build" =>
        /\ thrown <=> lastOp.this.kind \in {"column", "function", "alias"}
        /\ thrown => w = EmptyMap
        /\ ~thrown => DOMAIN w = {lastOp.this.name}
  /\ lastStore.op = "aggregate" =>
        IF lastStore.key.kind \in {"column", "function", "alias"}
          THEN /\ lastStore.outcome = "rejected"
               /\ lastStore.error = SyntaxError
               /\ lastStore.calls = <<>>
          ELSE /\ lastStore.outcome = "resolved"
               /\ Len(lastStore.calls) = 1
               /\ lastStore.calls[1].field = lastStore.key.name

\* C11 witness: a comparison on an alias threw, and an aggregate keyed by a
\* function call was rejected with no call issued
C11_Witness ==
  /\ lastOp.op = "build" /\ lastOp.this.kind = "alias" /\ thrown
  /\ lastStore.op = "aggregate" /\ lastStore.key.kind = "function"
  /\ lastStore.outcome = "rejected" /\ lastStore.calls = <<>>

---------------------------------------------------------------------------
(* Properties of the query builder *)

\* the object a returned builder call constructed, its receiver and argument
Result == queries[Len(queries)].q
Receiver == queries[lastCall.this].q
Argument == queries[lastCall.other].q

\* the aliases of a list of include options
AliasesOf(includes) == {includes[i].as : i \in 1..Len(includes)}

\* the include options a list holds for alias k
IncludesFor(includes, k) == SelectSeq(includes, LAMBDA inc : inc.as = k)

\* C1: every builder call is copy-on-write: across any call no Query object
\* that exists is removed or changed (options, nested queries included),
\* and compileFindOptions() of each gives what it gave before.
C1_CopyOnWrite ==
  [][/\ Len(queries') >= Len(queries)
     /\ \A i \in 1..Len(queries) :
          /\ queries'[i].q = queries[i].q
          /\ compileFindOptions(queries'[i].q) = compileFindOptions(queries[i].q)]_vars

\* C1 witness: include was called with a subquery on a receiver that already
\* holds a nested query for the alias, and returned a different query
C1_Witness ==
  /\ lastCall.op = "include" /\ lastCall.outcome = "returned"
  /\ lastCall.sub # Null
  /\ \E i \in 1..Len(Receiver.options.includes.v) :
       /\ Receiver.options.includes.v[i].as = lastCall.assocKey
       /\ Receiver.options.includes.v[i].query # Null
  /\ Result # Receiver

\* the offset and limit a query compiles to are the sums of the arguments
\* of the skip and take calls that built it, and absent when the sum is 0
PagingIsSum(e) ==
  LET f == compileFindOptions(e.q)
  IN  /\ f.offset.def = (e.skips > 0)
      /\ f.offset.def => f.offset.v = e.skips
      /\ f.limit.def = (e.takes > 0)
      /\ f.limit.def => f.limit.v = e.takes

\* C6: whatever builder calls are interleaved, a query compiles to offset =
\* the sum of its skip arguments and limit = the sum of its take arguments,
\* each key absent when its sum is 0.
C6_PagingIsSumAlways == \A i \in 1..Len(queries) : PagingIsSum(queries[i])

\* C6, apart from merge: the sums hold for every query built without merge,
\* and merge(other) gives the result other's skipped and taken.
C6_PagingIsSumUnlessMerged ==
  /\ \A i \in 1..Len(queries) : ~queries[i].merged => PagingIsSum(queries[i])
  /\ (lastCall.op = "merge" /\ lastCall.outcome = "returned") =>
       /\ Result.options.skipped = Argument.options.skipped
       /\ Result.options.taken = Argument.options.taken

\* C6 witness: a second skip on a query that already skips, built without merge
C6_Witness ==
  /\ lastCall.op = "skip" /\ lastCall.outcome = "returned"
  /\ lastCall.num > 0
  /\ queries[lastCall.this].skips > 0
  /\ ~queries[Len(queries)].merged
  /\ compileFindOptions(Result).offset.v = queries[lastCall.this].skips + lastCall.num

\* C7: no query holds two include options with the same alias.
C7_UniqueAliases ==
  \A i \in 1..Len(queries) :
    LET includes == queries[i].q.options.includes.v
    IN  \A j, k \in 1..Len(includes) : j # k => includes[j].as # includes[k].as

\* C8: include on an alias k the receiver already holds with nested query Q1
\* returns a query with exactly one include for k; its nested query is Q1
\* when no subquery is passed and otherwise Q1 merged with the subquery (Q1's
\* wheres, attrs and includes retained); an option the call overrides takes
\* the override and any other option keeps the existing value.
C8_ReincludeMerges ==
  LET k == lastCall.assocKey
      old == IncludesFor(Receiver.options.includes.v, k)
      Q1 == old[1].query
  IN  (/\ lastCall.op = "include"
       /\ "as" \notin DOMAIN lastCall.extra
       /\ Len(old) = 1 /\ Q1 # Null) =>
        /\ lastCall.outcome = "returned"
        /\ LET new == IncludesFor(Result.options.includes.v, k)
               Q == new[1].query
           IN  /\ Len(new) = 1
               /\ lastCall.sub = Null => Q = Q1
               /\ lastCall.sub # Null =>
                    /\ Q.options.wheres = Q1.options.wheres \o lastCall.sub.options.wheres
                    /\ Q.options.attrs.v = Q1.options.attrs.v \o lastCall.sub.options.attrs.v
                    /\ AliasesOf(Q1.options.includes.v) \subseteq AliasesOf(Q.options.includes.v)
               /\ new[1].required =
                    IF "required" \in DOMAIN lastCall.extra
                      THEN lastCall.extra["required"] ELSE old[1].required
               /\ new[1].associateOnly =
                    IF "associateOnly" \in DOMAIN lastCall.extra
                      THEN lastCall.extra["associateOnly"] ELSE old[1].associateOnly

\* C9: a.merge(b) returns a query whose includes are the union by alias of
\* a's and b's: an alias only one of them holds keeps its include option as
\* it was, an alias both hold gets one include whose nested query is a's
\* nested query merged with b's.
C9_MergeUnionsIncludes ==
  lastCall.op = "merge" =>
    /\ lastCall.outcome = "returned"
    /\ LET a == Receiver.options.includes.v
           b == Argument.options.includes.v
           r == Result.options.includes.v
       IN  /\ AliasesOf(r) = AliasesOf(a) \cup AliasesOf(b)
           /\ \A k \in AliasesOf(r) : Len(IncludesFor(r, k)) = 1
           /\ \A k \in AliasesOf(a) \ AliasesOf(b) :
                IncludesFor(r, k) = IncludesFor(a, k)
           /\ \A k \in AliasesOf(b) \ AliasesOf(a) :
                IncludesFor(r, k) = IncludesFor(b, k)
           /\ \A k \in AliasesOf(a) \cap AliasesOf(b) :
                LET qa == IncludesFor(a, k)[1].query
                    qb == IncludesFor(b, k)[1].query
                    qr == IncludesFor(r, k)[1].query
                IN  (qa # Null /\ qb # Null) =>
                      qr.options.wheres = qa.options.wheres \o qb.options.wheres

\* C10: q.merge(q) has the wheres list and the attrs list of q.
C10_SelfMergeKeepsLists ==
  (/\ lastCall.op = "merge" /\ lastCall.outcome = "returned"
   /\ lastCall.other = lastCall.this) =>
    /\ Result.options.wheres = Receiver.options.wheres
    /\ Result.options.attrs.v = Receiver.options.attrs.v

---------------------------------------------------------------------------
(* Properties of the storage operations *)

\* the calls of a kind among the calls the last operation issued
CallsOf(kind) == SelectSeq(lastStore.calls, LAMBDA c : c.call = kind)

\* the rows a where and a limit select in the table as it is now
ReadBack(whereOptions, limit) ==
  LET table == rows[lastStore.model]
      ids == selected(table, whereOptions, limit)
  IN  [j \in 1..Len(ids) |-> Row(table, ids[j])]

\* C12: save dispatches on the primary key. For an instance that passes
\* validation: with the primary key set, exactly one update is issued, its
\* filter the wheres of the query plus equality on the primary key, and no
\* create; a save that resolves gives the first re-read row, or null when
\* the update reports no row or the read-back is empty. With the primary
\* key unset, exactly one create is issued and no update.
C12_SaveDispatches ==
  (lastStore.op = "save" /\ lastStore.env = "ok") =>
    LET filter == extend(compileWheres(lastStore.this),
                         fromPairs("id", Lit(lastStore.data.id)))
        readBack == ReadBack(filter, limitOf(lastStore.this))
    IN  IF lastStore.data.id # 0
          THEN /\ Len(CallsOf("update")) = 1
               /\ Len(CallsOf("create")) = 0
               /\ CallsOf("update")[1].where = filter
               /\ lastStore.outcome = "resolved" =>
                    lastStore.result =
                      IF lastStore.num < 1 \/ readBack = <<>> THEN Null
                      ELSE readBack[1]
          ELSE /\ Len(CallsOf("create")) = 1
               /\ Len(CallsOf("update")) = 0

\* C12 witness: a save with the primary key set whose update wrote a row
\* that the read-back no longer finds, so that save resolved to null
C12_Witness ==
  /\ lastStore.op = "save" /\ lastStore.env = "ok"
  /\ lastStore.data.id # 0
  /\ lastStore.outcome = "resolved"
  /\ lastStore.num = 1
  /\ lastStore.result = Null
  /\ Len(CallsOf("update")) = 1

\* C13: update issues its calls in a fixed order: the backend update with
\* the compiled where and limit, then (whenever the backend accepted the
\* update) a findAll with the same where and limit, then, when associate is
\* enabled, one run of the engine per re-read row on the values the caller
\* passed; it resolves to the re-read rows.
C13_UpdateOrder ==
  lastStore.op = "update" =>
    LET whereOptions == compileWheres(lastStore.this)
        limit == limitOf(lastStore.this)
        readBack == ReadBack(whereOptions, limit)
        expected == <<UpdateCall(lastStore.data, whereOptions, limit,
                                 lastStore.options.transaction),
                      FindAllCall(whereOptions, limit,
                                  lastStore.options.transaction)>>
        started == ~(lastStore.options.validate /\ lastStore.env = "invalid")
    IN  /\ Len(lastStore.calls) <= 2
        /\ lastStore.calls = SubSeq(expected, 1, Len(lastStore.calls))
        /\ started => Len(lastStore.calls) >= 1
        /\ (started /\ lastStore.env # "backend") =>
             /\ Len(lastStore.calls) = 2
             /\ IF lastStore.options.associate
                  THEN /\ Len(lastStore.engine) = Len(readBack)
                       /\ \A j \in 1..Len(readBack) :
                            /\ lastStore.engine[j].pk = readBack[j].id
                            /\ lastStore.engine[j].calls =
                                 associate("update", readBack[j].id, lastStore.data,
                                           lastStore.this.options.includes,
                                           lastStore.options.transaction).calls
                  ELSE lastStore.engine = <<>>
        /\ lastStore.outcome = "resolved" =>
             /\ lastStore.result.rows = readBack
             /\ lastStore.result.num = lastStore.num

\* C13 witness: an update under a limit that more rows satisfy, on a query
\* with an include, resolved after the engine set the association of the row
C13_Witness ==
  /\ lastStore.op = "update" /\ lastStore.outcome = "resolved"
  /\ lastStore.options.associate
  /\ limitOf(lastStore.this).def
  /\ Len(selected(rows[lastStore.model], compileWheres(lastStore.this), NoNum)) > 1
  /\ Len(lastStore.result.rows) = 1
  /\ Len(lastStore.calls) = 2

\* C14: update resolves to [n, rows] with n the number of rows updated and
\* rows the rows updated: rows has n elements, each a row the write
\* modified, carrying the new values.
C14_UpdateReturnsUpdated ==
  (lastStore.op = "update" /\ lastStore.outcome = "resolved") =>
    /\ Len(lastStore.result.rows) = lastStore.result.num
    /\ \A j \in 1..Len(lastStore.result.rows) :
         /\ \E i \in 1..Len(lastStore.reported) :
              lastStore.reported[i] = lastStore.result.rows[j]
         /\ lastStore.data.name # "" =>
              lastStore.result.rows[j].name = lastStore.data.name

---------------------------------------------------------------------------
(* Properties of the association engine *)

\* the includes the last storage operation ran with
Includes == OrEmpty(lastStore.this.options.includes)

\* the calls of a kind the last operation issued for the association key
CallsFor(kind, key) ==
  SelectSeq(lastStore.calls, LAMBDA c : c.call = kind /\ c.as = key)
NestedCalls(kind) ==
  SelectSeq(lastStore.calls, LAMBDA c : c.call = kind)

\* the items a setter call handed over
Handed(target) ==
  IF target = Null THEN <<>>
  ELSE IF target.t = "many" THEN target.items ELSE <<target.item>>

\* the engine reaches the include and finds a value to process: its value
\* is not undefined and it is not a belongs-to whose foreign key is set
Processed(key) ==
  /\ declared(key) /\ internal(key) /\ resolved(key) # ""
  /\ valueOf(lastStore.data, key) # Undefined
  /\ ~(/\ Associations[key].associationType = "BelongsTo"
       /\ foreignValue(lastStore.data, Associations[key].foreignKey) # 0)

RECURSIVE EngineCallsFrom(_)
EngineCallsFrom(j) ==
  IF j > Len(lastStore.engine) THEN <<>>
  ELSE lastStore.engine[j].calls \o EngineCallsFrom(j + 1)
EngineCalls ==
  IF lastStore.op = "update" THEN EngineCallsFrom(1) ELSE lastStore.calls

\* C16: on create with a has-one or has-many include the root insert is
\* issued first and every nested insert is issued after it, carrying the
\* back-pointing foreign key of the association set to the primary key the
\* root was given; on update the engine writes no foreign key into a nested
\* value.
C16_PreStamp ==
  /\ lastStore.op = "create" =>
       \A p \in 1..Len(lastStore.calls) :
         LET c == lastStore.calls[p]
         IN  (/\ c.call = "save" /\ c.isNewRecord
              /\ Associations[c.as].associationType \in {"HasOne", "HasMany"}) =>
               /\ p > 1 /\ lastStore.calls[1].call = "create"
               /\ c.values.stamped =
                    [key |-> Associations[c.as].foreignKey,
                     v |-> Len(lastStore.before[lastStore.model]) + 1]
  /\ lastStore.op = "update" =>
       \A p \in 1..Len(EngineCalls) :
         EngineCalls[p].call = "save" => EngineCalls[p].values.stamped = NoStamp

\* the includes without the i-th
Without(includes, i) ==
  SubSeq(includes, 1, i - 1) \o SubSeq(includes, i + 1, Len(includes))

\* the value the data passed to the engine holds for an association
Given(key) == lastStore.data.assocs[key]

\* the nested saves and setter calls among the calls of a run
Work(calls) == SelectSeq(calls, LAMBDA c : c.call # "reload")

\* C17: a null value clears the association: for every kind of association
\* the engine processes (a belongs-to whose foreign key is unset, has-one,
\* has-many, belongs-to-many), on create and on update, a null value makes
\* the engine call the setter of the association once with null and issue no
\* nested save for it, and go on to the next include and the final reload.
C17_NullClears ==
  (lastStore.op = "associate" /\ lastStore.outcome # "rejected") =>
    \A i \in 1..Len(Includes) :
      LET key == Includes[i].as
      IN  (Given(key) = Null /\ Processed(key)) =>
            /\ Len(CallsFor("set", key)) = 1
            /\ CallsFor("set", key)[1].target = Null
            /\ CallsFor("save", key) = <<>>
            /\ lastStore.outcome = "reloaded"
            /\ lastStore.calls[Len(lastStore.calls)].call = "reload"

\* C18: an included association whose value is undefined is never touched:
\* no nested save and no setter call is issued for it, whatever the kind of
\* association and the type of operation, and the other includes are
\* processed as if it were not included.
C18_UndefinedUntouched ==
  lastStore.op = "associate" =>
    \A i \in 1..Len(Includes) :
      LET key == Includes[i].as
          alone == associate(lastStore.type, lastStore.pk, lastStore.data,
                             Some(Without(Includes, i)), NoTransaction)
      IN  Given(key) = Undefined =>
            /\ CallsFor("save", key) = <<>>
            /\ CallsFor("set", key) = <<>>
            /\ Len(Includes) > 1 =>
                 /\ Work(lastStore.calls) = Work(alone.calls)
                 /\ lastStore.outcome = alone.outcome

\* C18 witness: the first include was undefined and the engine saved and set
\* the second
C18_Witness ==
  /\ lastStore.op = "associate" /\ lastStore.outcome = "reloaded"
  /\ Len(Includes) = 2
  /\ Given(Includes[1].as) = Undefined
  /\ Len(CallsFor("save", Includes[2].as)) = 1
  /\ Len(CallsFor("set", Includes[2].as)) = 1
  /\ Len(lastStore.calls) = 3

\* C19: for a belongs-to include whose foreign key is set in the data the
\* engine is handed, neither a nested save nor a setter call is issued; when
\* the foreign key is unset the include is processed as any other.
C19_BelongsToShortCircuit ==
  lastStore.op = "associate" =>
    \A i \in 1..Len(Includes) :
      LET key == Includes[i].as
          fk == lastStore.data.fks[Associations[key].foreignKey]
      IN  (declared(key) /\ Associations[key].associationType = "BelongsTo") =>
            /\ fk # 0 => /\ CallsFor("save", key) = <<>>
                         /\ CallsFor("set", key) = <<>>
            /\ (fk = 0 /\ Given(key) # Undefined /\ lastStore.outcome = "reloaded") =>
                 /\ Len(CallsFor("set", key)) = 1
                 /\ Given(key) # Null =>
                      \A j \in 1..Len(Handed(CallsFor("set", key)[1].target)) :
                        LET v == Handed(CallsFor("set", key)[1].target)[j]
                        IN  v.id = 0 => \E k \in 1..Len(CallsFor("save", key)) :
                                          CallsFor("save", key)[k].values = v

\* C19 witness: on create the mentor was given by its id, so its foreign key
\* was set and the engine skipped it, and went on to set the mentee
C19_Witness ==
  /\ lastStore.op = "associate" /\ lastStore.type = "create"
  /\ lastStore.outcome = "reloaded"
  /\ Len(Includes) = 2 /\ Includes[1].as = "mentor"
  /\ Given("mentor") # Undefined /\ Given("mentor") # Null
  /\ lastStore.data.fks["mentorId"] = Given("mentor").item.id
  /\ CallsFor("set", "mentor") = <<>>
  /\ Len(CallsFor("set", "mentee")) = 1

\* the errors of the nested saves that failed in the last operation
FailedSaves ==
  {EngineCalls[p].values.err :
     p \in {x \in 1..Len(EngineCalls) :
              EngineCalls[x].call = "save" /\ EngineCalls[x].values.err # <<>>}}

\* C20: when create or update rejects because a nested save failed, the
\* error is a ValidationError constructed for the nested model whose keys,
\* the preset ones, the violated attributes and the violated constraints,
\* all start with the alias of the association and a dot; when the root
\* write itself is rejected by the backend the error is constructed for the
\* root model and its keys carry no prefix.
C20_PrefixedErrors ==
  (lastStore.op \in {"create", "update"} /\ lastStore.outcome = "rejected") =>
    LET root == lastStore.env = "backend"
        alias == Includes[1].as
        ctor == IF root THEN lastStore.model ELSE Associations[alias].target
        Key(k) == IF root THEN k ELSE alias \o "." \o k
        failed == IF root THEN {BackendError} ELSE FailedSaves
        attrs == ModelAttributes[ctor]
        preset == attrs \cup ModelAssociations[ctor]
        error == lastStore.error
    IN  /\ error.t = "ValidationError"
        /\ error.message = "Validation error"
        /\ error.ctor = ctor
        /\ \E err \in failed :
             LET paths == {err[i].path : i \in 1..Len(err)}
             IN  /\ DOMAIN error.errors = {Key(k) : k \in preset}
                 /\ DOMAIN error.constraints = {Key(k) : k \in paths \ attrs}
                 /\ \A k \in preset :
                      (error.errors[Key(k)] = Arr(<<>>)) <=> (k \notin paths)

\* C20 witness: a create on List was rejected by the save of a nested item,
\* reporting a violated constraint under the alias of the association
C20_Witness ==
  /\ lastStore.op = "create" /\ lastStore.outcome = "rejected"
  /\ lastStore.env = "ok" /\ lastStore.model = "list"
  /\ lastStore.error.ctor = "listItem"
  /\ "items.value" \in DOMAIN lastStore.error.errors
  /\ "items.name" \in DOMAIN lastStore.error.constraints

\* C20 second witness: an update on Actor was rejected by the save of the
\* nested mentee, reporting a violated attribute under the alias
C20_WitnessAttribute ==
  /\ lastStore.op = "update" /\ lastStore.outcome = "rejected"
  /\ lastStore.env = "ok" /\ lastStore.model = "actor"
  /\ lastStore.error.ctor = "actor"
  /\ lastStore.error.errors["mentee.name"] # Arr(<<>>)
  /\ lastStore.error.errors["mentee.id"] = Arr(<<>>)

\* C20 third witness: the backend rejected the root insert and the keys
\* carry no prefix
C20_WitnessRoot ==
  /\ lastStore.op = "create" /\ lastStore.outcome = "rejected"
  /\ lastStore.env = "backend"
  /\ lastStore.error.errors["name"] # Arr(<<>>)
  /\ DOMAIN lastStore.error.errors = {"id", "name", "items"}

\* the place of the include of an association in the include list
PlaceOf(key) == CHOOSE i \in 1..Len(Includes) : Includes[i].as = key

\* C26: with no include the engine issues no call and hands back the
\* instance it was given; with includes, a run that does not fail handles
\* the includes in the order of the list, each with its nested saves before
\* its one setter call, and ends with the only reload, of the root row with
\* the compiled tree of the includes of the query, also when no include gave
\* rise to a call.
C26_ReloadProtocol ==
  lastStore.op = "associate" =>
    LET calls == lastStore.calls
        work == Work(calls)
    IN  /\ Len(Includes) = 0 => calls = <<>> /\ lastStore.outcome = "untouched"
        /\ Len(CallsOf("reload")) <= 1
        /\ (Len(Includes) > 0 /\ lastStore.outcome \notin {"rejected", "threw", "failed"}) =>
             /\ lastStore.outcome = "reloaded"
             /\ calls = Append(work,
                               [call |-> "reload", pk |-> lastStore.pk,
                                include |-> compileIncludes(Includes),
                                transaction |-> NoTransaction])
             /\ Len(compileIncludes(Includes)) = Len(Includes)
             /\ \A n \in 1..Len(work), m \in 1..Len(work) :
                  n < m =>
                    /\ PlaceOf(work[n].as) <= PlaceOf(work[m].as)
                    /\ work[n].as = work[m].as => work[n].call = "save"

\* two includes were handled, each with a setter call, and then the reload
C26_Witness ==
  /\ lastStore.op = "associate"
  /\ lastStore.outcome = "reloaded"
  /\ Len(Includes) = 2
  /\ \A i \in 1..2 : Len(CallsFor("set", Includes[i].as)) = 1
  /\ Len(CallsFor("save", Includes[2].as)) = 1
  /\ Len(lastStore.calls) >= 4

\* every include was skipped and the reload is the only call
C26_WitnessSkipped ==
  /\ lastStore.op = "associate"
  /\ Len(Includes) = 2
  /\ Len(lastStore.calls) = 1
  /\ lastStore.calls[1].call = "reload"

\* no include: no call
C26_WitnessNone ==
  /\ lastStore.op = "associate"
  /\ Len(Includes) = 0
  /\ lastStore.outcome = "untouched"

\* the engine cannot use the include of an association: the root model has
\* no descriptor for the alias, the backend has no association for it, or
\* its target model cannot be resolved
Unusable(key) == ~declared(key) \/ ~internal(key) \/ resolved(key) = ""

\* C27: an include the engine cannot use is skipped: the run raises no error
\* for it and issues no nested save and no setter call for it, and the
\* other includes and the reload run as they do without it.
C27_UnusableSkipped ==
  lastStore.op = "associate" =>
    \A i \in 1..Len(Includes) :
      LET key == Includes[i].as
          alone == associate(lastStore.type, lastStore.pk, lastStore.data,
                             Some(Without(Includes, i)), NoTransaction)
      IN  Unusable(key) =>
            /\ lastStore.outcome # "threw"
            /\ CallsFor("save", key) = <<>> /\ CallsFor("set", key) = <<>>
            /\ Len(CallsOf("reload")) = 1
            /\ Work(lastStore.calls) = Work(alone.calls)

\* the runs of the engine that failed in the last create or update, each
\* with the type, the root row and the data it was handed and the calls it
\* issued
FailedRuns ==
  IF lastStore.outcome \notin {"rejected", "failed"} THEN {}
  ELSE IF lastStore.op = "create"
    THEN {[type |-> "create", pk |-> Len(lastStore.before[lastStore.model]) + 1,
           data |-> prepare(lastStore.this, lastStore.data),
           outcome |-> lastStore.outcome,
           calls |-> SubSeq(lastStore.calls, 2, Len(lastStore.calls))]}
  ELSE {[type |-> "update", pk |-> lastStore.engine[j].pk, data |-> lastStore.data,
         outcome |-> lastStore.engine[j].outcome,
         calls |-> lastStore.engine[j].calls] :
          j \in {x \in 1..Len(lastStore.engine) :
                   lastStore.engine[x].outcome \in {"rejected", "failed"}}}

\* C28: a failure of the engine is not atomic. When a nested save or a
\* setter call of include i fails, create/update rejects; the run issued the
\* calls of the includes before i as it does without the failure, then calls
\* of include i only, no setter call after a failed save, no call of a later
\* include and no reload; and the root write stays: the created row is in
\* the table, the updated rows keep their new values.
C28_FailureNotAtomic ==
  (lastStore.op \in {"create", "update"} /\ lastStore.outcome \in {"rejected", "failed"}) =>
    /\ FailedRuns # {}
    /\ lastStore.result = Null
    /\ lastStore.calls[1].call = lastStore.op
    /\ \A run \in FailedRuns :
         LET c == run.calls
             last == c[Len(c)]
             i == PlaceOf(last.as)
             earlier == Work(associate(run.type, run.pk, run.data,
                                       Some(SubSeq(Includes, 1, i - 1)),
                                       NoTransaction).calls)
             own == SubSeq(c, Len(earlier) + 1, Len(c))
         IN  /\ Len(c) > 0
             /\ \A n \in 1..Len(c) : c[n].call # "reload"
             /\ SubSeq(c, 1, Len(earlier)) = earlier
             /\ \A n \in 1..Len(own) : own[n].as = last.as
             /\ run.outcome = "rejected" =>
                  /\ \A n \in 1..Len(own) : own[n].call = "save"
                  /\ \E n \in 1..Len(own) : own[n].values.err # <<>>
             /\ run.outcome = "failed" =>
                  /\ last.call = "set" /\ setterFails(last.target)
                  /\ \A n \in 1..(Len(own) - 1) :
                       own[n].call = "save" /\ own[n].values.err = <<>>
    /\ LET before == lastStore.before[lastStore.model]
           table == rows[lastStore.model]
       IN  IF lastStore.op = "create"
             THEN table = Append(before, [name |-> lastStore.data.name])
             ELSE /\ Len(table) = Len(before)
                  /\ \A n \in 1..Len(table) : table[n].name = lastStore.data.name

\* a create was rejected by the nested save of its second include after the
\* first include was saved and set: those calls and the created row remain
C28_Witness ==
  /\ lastStore.op = "create" /\ lastStore.outcome = "rejected"
  /\ Len(CallsFor("set", Includes[1].as)) = 1
  /\ Len(CallsFor("save", Includes[1].as)) = 1
  /\ Len(CallsFor("save", Includes[2].as)) = 1
  /\ CallsFor("set", Includes[2].as) = <<>>
  /\ Len(rows["actor"]) = Len(lastStore.before["actor"]) + 1

\* an update failed in the setter call of its first include: the rows are
\* renamed, the second include was not reached
C28_WitnessSetter ==
  /\ lastStore.op = "update" /\ lastStore.outcome = "failed"
  /\ lastStore.before["actor"][2].name = "v2" /\ rows["actor"][2].name = "v1"
  /\ valueOf(lastStore.data, Includes[2].as) \notin {Undefined, Null}
  /\ \A run \in FailedRuns : \A n \in 1..Len(run.calls) : run.calls[n].as = Includes[1].as

\* a save of an item failed and the save of its sibling, started in the same
\* batch, was issued all the same
C28_WitnessSibling ==
  /\ lastStore.op = "create" /\ lastStore.outcome = "rejected"
  /\ \E n \in 1..(Len(lastStore.calls) - 1) :
       /\ lastStore.calls[n].call = "save" /\ lastStore.calls[n].values.err # <<>>
       /\ lastStore.calls[n + 1].call = "save"
       /\ lastStore.calls[n + 1].as = lastStore.calls[n].as

---------------------------------------------------------------------------
(* Properties of coerceValidationError *)

\* the key of the coerced error a key of the model is stored under
CoercedKey(k) ==
  IF coercion.prefix = "" THEN k ELSE coercion.prefix \o "." \o k

\* the violations of the backend error on a path
ViolationsOn(path) == SelectSeq(coercion.err, LAMBDA e : e.path = path)
ViolatedPaths == {coercion.err[i].path : i \in 1..Len(coercion.err)}

\* C21: the coerced error holds every attribute key and every association
\* key of the model, with an empty list when unviolated; the violations on
\* an attribute are recorded under the key of the attribute only, those on
\* any other path in the constraints map only, and the attribute lists are
\* the ones the attribute violations alone give.
C21_AttributesAndConstraintsApart ==
  coercion.result # Null =>
    LET r == coercion.result
        attrs == ModelAttributes[coercion.ctor]
        assocs == ModelAssociations[coercion.ctor]
        onAttributes == SelectSeq(coercion.err, LAMBDA e : e.path \in attrs)
    IN  /\ \A k \in attrs \cup assocs :
             /\ CoercedKey(k) \in DOMAIN r.errors
             /\ k \notin ViolatedPaths \cap attrs => r.errors[CoercedKey(k)] = Arr(<<>>)
        /\ \A k \in ViolatedPaths \cap attrs :
             /\ Len(r.errors[CoercedKey(k)].a) = Len(ViolationsOn(k))
             /\ CoercedKey(k) \notin DOMAIN r.constraints
        /\ \A k \in ViolatedPaths \ attrs :
             /\ CoercedKey(k) \in DOMAIN r.constraints
             /\ Len(r.constraints[CoercedKey(k)].a) = Len(ViolationsOn(k))
        /\ r.errors =
             coerceValidationError(coercion.ctor, onAttributes, coercion.prefix).errors

\* C21 witness: a backend error on Actor with a violation on the attribute
\* name and one on a unique constraint was coerced
C21_Witness ==
  /\ coercion.result # Null /\ coercion.ctor = "actor" /\ coercion.prefix = ""
  /\ ViolatedPaths = {"name", "actor_name_key"}
  /\ Len(coercion.result.errors["name"].a) = 1
  /\ coercion.result.errors["age"] = Arr(<<>>)
  /\ DOMAIN coercion.result.constraints = {"actor_name_key"}

\* the list the coerced error holds for a violated path
CoercedList(path) ==
  IF path \in ModelAttributes[coercion.ctor]
    THEN coercion.result.errors[CoercedKey(path)]
    ELSE coercion.result.constraints[CoercedKey(path)]

\* the type a violation type is documented to map to
DocumentedType ==
  [x \in DOMAIN toLowerCase |->
     CASE x = "notNull Violation" -> "attribute.required"
       [] x = "unique violation" -> "attribute.unique"
       [] x = "string violation" -> "attribute.string"
       [] OTHER -> x]

\* C22: the mapping of violation types is total: every violation of the
\* backend error yields, in the list of its path and at its position, one
\* error item with a type and a message; a not-null violation is typed
\* attribute.required, a unique violation attribute.unique, a string
\* violation attribute.string, and no violation gives an undefined entry.
C22_MappingTotal ==
  coercion.result # Null =>
    \A path \in ViolatedPaths :
      /\ Len(CoercedList(path).a) = Len(ViolationsOn(path))
      /\ \A i \in 1..Len(ViolationsOn(path)) :
           LET item == CoercedList(path).a[i]
           IN  /\ item # Undefined
               /\ item.t = "obj"
               /\ DOMAIN item.m = {"type", "message"}
               /\ toLowerCase[ViolationsOn(path)[i].type] # "validation error" =>
                    item.m["type"] = Lit(DocumentedType[ViolationsOn(path)[i].type])

---------------------------------------------------------------------------
(* Properties of update as a task among others *)

\* C23: in update's multi-row path the engine runs one re-read row after the
\* other: the storage engine never receives a call of row k+1 before the
\* last call of row k, and once row k has failed no later row has issued
\* any call.
C23_RowsSequential ==
  /\ \A p, q \in 1..Len(flight.log) :
       p < q => flight.log[p].row <= flight.log[q].row
  /\ \A j \in FailedRows :
       \A k \in 1..Len(flight.data) : k > j => flight.next[k] = 1

\* C24: update's write and its read-back are two calls with a suspension
\* point between them: when the write has resolved the read-back has not
\* been issued and another writer can run; the rows read back are the rows
\* written when no other task wrote in between, and nothing else ties them.
C24_WriteThenReadBack ==
  /\ flight.pc = "written" => flight.data = <<>> /\ ENABLED ConcurrentWrite
  /\ flight.pc \in {"associating", "rejected", "done"} /\ ~flight.disturbed
       => flight.data = flight.hit

\* another writer ran between the two calls and update returns a row its
\* write never touched, in a number other than the number reported
C24_Witness ==
  /\ flight.pc = "done"
  /\ flight.disturbed
  /\ Len(flight.data) # Len(flight.hit)
  /\ \E j \in 1..Len(flight.data) :
       \A i \in 1..Len(flight.hit) : flight.data[j] # flight.hit[i]

---------------------------------------------------------------------------
(* Properties of the transaction of the caller *)

\* the calls an operation issued: its own and those of its runs of the engine
IssuedCalls ==
  {lastStore.calls[i] : i \in 1..Len(lastStore.calls)}
    \cup UNION {{lastStore.engine[j].calls[i] :
                   i \in 1..Len(lastStore.engine[j].calls)} :
                  j \in 1..Len(lastStore.engine)}

\* C25: every storage-engine call issued by a create or an update carries
\* the transaction of the options: the root insert or update, the read-back
\* findAll, the nested saves, the setter calls and the reload.
C25_TransactionThreaded ==
  lastStore.op \in {"create", "update"}
    => \A c \in IssuedCalls : c.transaction = lastStore.options.transaction

\* an update inside a transaction wrote, read back, saved a nested value,
\* set it and reloaded
C25_Witness ==
  /\ lastStore.op = "update"
  /\ lastStore.options.transaction = "tx"
  /\ {c.call : c \in IssuedCalls} = {"update", "findAll", "save", "set", "reload"}

\* an update inside a transaction cleared an association and reloaded
C25_WitnessCleared ==
  /\ lastStore.op = "update"
  /\ lastStore.options.transaction = "tx"
  /\ \E c \in IssuedCalls : c.call = "set" /\ c.target = Null
  /\ \E c \in IssuedCalls : c.call = "reload"

\* a create inside a transaction inserted, saved a nested value, set it and
\* reloaded
C25_WitnessCreate ==
  /\ lastStore.op = "create"
  /\ lastStore.options.transaction = "tx"
  /\ {c.call : c \in IssuedCalls} = {"create", "save", "set", "reload"}

---------------------------------------------------------------------------
(* Properties of compileAttributes and compileOrderings *)

\* C29: compileAttributes gives every projection in its right-hand form: a
\* plain attribute as the column reference compileRight() yields, not the
\* bare name, and a [function call, output attribute] pair as the pair of
\* the call's compileRight() and the name of the output attribute.
C29_AttributesRight ==
  \A i \in 1..Len(queries) :
    LET this == queries[i].q
        attrs == OrEmpty(this.options.attrs)
    IN  this.options.attrs.def =>
          \A n \in 1..Len(attrs) :
            compileAttributes(this)[n] =
              IF attrs[n].isArray
                THEN Arr(<<compileRight(attrs[n].items[1]),
                           Lit(compileLeft(attrs[n].items[2]))>>)
                ELSE compileRight(attrs[n].items[1])

\* the associations a path goes through, and the attribute it ends in
PathOf(name) ==
  IF name = "mentee.name" THEN [hops |-> <<"mentee">>, leaf |-> "name"]
  ELSE [hops |-> <<>>, leaf |-> name]

\* C30: compileOrderings gives an ordering on an attribute reached through
\* associations as the list of the {model, as} hops of the associations,
\* then the name of the attribute, then the direction, never as a flat
\* reference; an ordering on a root attribute as [name, direction].
C30_OrderingPaths ==
  \A i \in 1..Len(queries) :
    LET this == queries[i].q
        orderings == OrEmpty(this.options.orderings)
    IN  this.options.orderings.def =>
          \A n \in 1..Len(orderings) :
            LET path == PathOf(orderings[n].q.name)
                hops == [h \in 1..Len(path.hops) |->
                           Obj([model |-> Lit(Associations[path.hops[h]].target),
                                as |-> Lit(path.hops[h])])]
            IN  compileOrderings(this)[n] =
                  Arr(hops \o <<Lit(path.leaf), Lit(orderings[n].dir)>>)

====
